---- MODULE Spec2Model ----
(***************************************************************************)
(* Positional tracking and provenance engine of tabd.                      *)
(*                                                                         *)
(* A document is the sequence of its line lengths; a text is a sequence of *)
(* one-character strings.  Positions are [line, character] records and     *)
(* tagged intervals are records [start, end, type, ts, author, options].   *)
(***************************************************************************)
EXTENDS Integers, Sequences, FiniteSets, TLC

(***************************************************************************)
(* Bounds of the model.                                                    *)
(***************************************************************************)
MaxEvents == 3
MaxCols == 3
MaxLines == 1
MaxTextLen == 2
\* the longest persisted log
MaxLogLen == 2
\* creation timestamps found in the persisted logs
LogOld == 1000
LogNew == 2000
\* the longest store handed to the coalescer, and its earliest creation timestamp
MaxStoreLen == 3
StampT == 100000
MaxCalls == 3
ShiftLines == 1
\* how long before the activation the last record of a recent log was written
ReloadAge == 1000

(***************************************************************************)
(* Program constants (milliseconds).                                       *)
(***************************************************************************)
PasteWindow == 200
PastePrune == 400
AIWindow == 2000
InlineAIWindow == 300000
ClipboardWindow == 3600000
CoalesceWindow == 60000

(***************************************************************************)
(* Positions (vscode.Position) and their lexicographic order.              *)
(***************************************************************************)
Pos(l, c) == [line |-> l, character |-> c]

isBefore(a, b) ==
    \/ a.line < b.line
    \/ a.line = b.line /\ a.character < b.character

isEqual(a, b) == a.line = b.line /\ a.character = b.character

isBeforeOrEqual(a, b) == isBefore(a, b) \/ isEqual(a, b)

compareTo(a, b) ==
    IF isBefore(a, b) THEN -1 ELSE IF isBefore(b, a) THEN 1 ELSE 0

(***************************************************************************)
(* Texts.  "\n" is the line break; trim() strips white space, of which the *)
(* alphabet holds the line break and the blank.                            *)
(***************************************************************************)
NL == "\n"

IsSpace(ch) == ch = NL \/ ch = " "

RECURSIVE TrimLeft(_)
TrimLeft(t) ==
    IF t = <<>> THEN t
    ELSE IF IsSpace(Head(t)) THEN TrimLeft(Tail(t)) ELSE t

RECURSIVE TrimRight(_)
TrimRight(t) ==
    IF t = <<>> THEN t
    ELSE IF IsSpace(t[Len(t)]) THEN TrimRight(SubSeq(t, 1, Len(t) - 1)) ELSE t

Trim(t) == TrimRight(TrimLeft(t))

\* text.split('\n').length - 1
CountNL(t) == Cardinality({i \in 1..Len(t) : t[i] = NL})

\* text.lastIndexOf('\n'), zero-based, -1 when absent
LastIndexOfNL(t) ==
    LET idx == {i \in 1..Len(t) : t[i] = NL}
    IN  IF idx = {} THEN -1 ELSE (CHOOSE i \in idx : \A j \in idx : j <= i) - 1

\* text.slice(text.lastIndexOf('\n') + 1).length
LenAfterLastNL(t) == Len(t) - (LastIndexOfNL(t) + 1)

\* String.prototype.substring(a, b): clamps to [0, length] and swaps
Substring(t, a, b) ==
    LET ca == IF a < 0 THEN 0 ELSE IF a > Len(t) THEN Len(t) ELSE a
        cb == IF b < 0 THEN 0 ELSE IF b > Len(t) THEN Len(t) ELSE b
        lo == IF ca <= cb THEN ca ELSE cb
        hi == IF ca <= cb THEN cb ELSE ca
    IN  SubSeq(t, lo + 1, hi)

\* String.prototype.indexOf(needle), zero-based, -1 when absent
IndexOf(hay, needle) ==
    LET hits == {i \in 0..(Len(hay) - Len(needle)) :
                    SubSeq(hay, i + 1, i + Len(needle)) = needle}
    IN  IF hits = {} THEN -1 ELSE CHOOSE i \in hits : \A j \in hits : i <= j

\* String.prototype.lastIndexOf(needle, from), zero-based, -1 when absent
LastIndexOfFrom(hay, needle, from) ==
    LET f    == IF from < 0 THEN 0 ELSE from
        hits == {i \in 0..(Len(hay) - Len(needle)) :
                    i <= f /\ SubSeq(hay, i + 1, i + Len(needle)) = needle}
    IN  IF hits = {} THEN -1 ELSE CHOOSE i \in hits : \A j \in hits : j <= i

\* String.prototype.includes(needle)
Includes(hay, needle) == IndexOf(hay, needle) # -1

RECURSIVE ReverseJoin(_)
\* changes.map(change => change.text).reverse().join('')
ReverseJoin(texts) ==
    IF texts = <<>> THEN <<>> ELSE ReverseJoin(Tail(texts)) \o Head(texts)

(***************************************************************************)
(* The host's document: offsetAt and positionAt of vscode.TextDocument,    *)
(* which clamp their argument into the document, and the application of a  *)
(* content change to the text.                                             *)
(***************************************************************************)
RECURSIVE SumLens(_, _)
\* number of characters in the first n lines, line breaks included
SumLens(doc, n) == IF n = 0 THEN 0 ELSE SumLens(doc, n - 1) + doc[n] + 1

DocLength(doc) == SumLens(doc, Len(doc)) - 1

ValidPos(doc, p) ==
    /\ p.line >= 0 /\ p.line < Len(doc)
    /\ p.character >= 0 /\ p.character <= doc[p.line + 1]

offsetAt(doc, p) ==
    IF p.line < 0 THEN 0
    ELSE IF p.line >= Len(doc) THEN DocLength(doc)
    ELSE LET c == IF p.character < 0 THEN 0
                  ELSE IF p.character > doc[p.line + 1] THEN doc[p.line + 1]
                  ELSE p.character
         IN  SumLens(doc, p.line) + c

positionAt(doc, off) ==
    LET o  == IF off < 0 THEN 0 ELSE IF off > DocLength(doc) THEN DocLength(doc) ELSE off
        ln == CHOOSE l \in 0..(Len(doc) - 1) :
                  SumLens(doc, l) <= o /\ o <= SumLens(doc, l) + doc[l + 1]
    IN  Pos(ln, o - SumLens(doc, ln))

\* lengths of the pieces of text.split('\n')
RECURSIVE SplitLens(_)
SplitLens(t) ==
    IF CountNL(t) = 0 THEN <<Len(t)>>
    ELSE LET first == CHOOSE i \in 1..Len(t) : t[i] = NL /\ \A j \in 1..(i - 1) : t[j] # NL
         IN  <<first - 1>> \o SplitLens(SubSeq(t, first + 1, Len(t)))

\* the document after the host replaced change.range by change.text
ApplyChange(doc, change) ==
    LET s     == change.range.start
        e     == change.range.end
        segs  == SplitLens(change.text)
        tail  == doc[e.line + 1] - e.character
        mid   == IF Len(segs) = 1
                 THEN <<s.character + segs[1] + tail>>
                 ELSE <<s.character + segs[1]>>
                      \o SubSeq(segs, 2, Len(segs) - 1)
                      \o <<segs[Len(segs)] + tail>>
    IN  SubSeq(doc, 1, s.line) \o mid \o SubSeq(doc, e.line + 2, Len(doc))

(***************************************************************************)
(* Ranges (vscode.Range) and tagged intervals (ExtendedRange).  The Range  *)
(* constructor orders its two positions.                                   *)
(***************************************************************************)
Range(a, b) ==
    IF isBefore(b, a) THEN [start |-> b, end |-> a] ELSE [start |-> a, end |-> b]

NoOptions ==
    [pasteUrl |-> "", pasteTitle |-> "", aiName |-> "", aiModel |-> "",
     aiExplanation |-> "", aiType |-> ""]

ExtendedRange(a, b, type, ts, author, options) ==
    [start |-> Range(a, b).start, end |-> Range(a, b).end, type |-> type,
     ts |-> ts, author |-> author, options |-> options]

\* a copy of r over other positions: type, creation_ts, author, options kept
Rebuilt(r, a, b) == ExtendedRange(a, b, r.type, r.ts, r.author, r.options)

Null == [null |-> TRUE]

IsEmptyRange(r) == isEqual(r.start, r.end)

\* Range.contains(position)
contains(r, p) == isBeforeOrEqual(r.start, p) /\ isBeforeOrEqual(p, r.end)

\* Range.intersection(other) is defined
intersects(r, o) ==
    LET s == IF isBefore(r.start, o.start) THEN o.start ELSE r.start
        e == IF isBefore(r.end, o.end) THEN r.end ELSE o.end
    IN  ~isBefore(e, s)

\* strict overlap of two intervals
StrictOverlap(a, b) == isBefore(a.start, b.end) /\ isBefore(b.start, a.end)

(***************************************************************************)
(* Position Algebra: getUpdatedPosition.                                   *)
(***************************************************************************)
\* a shift that adjusts the position whatever the end of the change
getUpdatedPositionUnguarded(position, change) ==
    LET rs == change.range.start
        re == change.range.end
        nl == CountNL(change.text)
        isDel == ~isEqual(rs, re)
        c1 == IF isDel /\ re.line = position.line
              THEN position.character - (re.character - rs.character)
              ELSE position.character
        l1 == IF isDel THEN position.line - (re.line - rs.line) ELSE position.line
        isIns == change.text # <<>>
        c2 == IF isIns /\ rs.line = l1
              THEN IF nl > 0
                   THEN c1 - rs.character + LenAfterLastNL(change.text)
                   ELSE c1 + Len(change.text)
              ELSE c1
        l2 == IF isIns THEN l1 + nl ELSE l1
    IN  Pos(l2, c2)

\* a shift whose deletion part reduces the column on every line
getUpdatedPositionAnyLine(position, change) ==
    LET rs == change.range.start
        re == change.range.end
        nl == CountNL(change.text)
        isDel == ~isEqual(rs, re)
        c1 == IF isDel
              THEN position.character - (re.character - rs.character)
              ELSE position.character
        l1 == IF isDel THEN position.line - (re.line - rs.line) ELSE position.line
        isIns == change.text # <<>>
        c2 == IF isIns /\ rs.line = l1
              THEN IF nl > 0
                   THEN c1 - rs.character + LenAfterLastNL(change.text)
                   ELSE c1 + Len(change.text)
              ELSE c1
        l2 == IF isIns THEN l1 + nl ELSE l1
    IN  IF isBeforeOrEqual(re, position) THEN Pos(l2, c2) ELSE position

\* a shift that leaves alone a position at the very end of the change
getUpdatedPositionStrict(position, change) ==
    LET rs == change.range.start
        re == change.range.end
        nl == CountNL(change.text)
        \* deletion part
        isDel == ~isEqual(rs, re)
        c1 == IF isDel /\ re.line = position.line
              THEN position.character - (re.character - rs.character)
              ELSE position.character
        l1 == IF isDel THEN position.line - (re.line - rs.line) ELSE position.line
        \* insertion part
        isIns == change.text # <<>>
        c2 == IF isIns /\ rs.line = l1
              THEN IF nl > 0
                   THEN c1 - rs.character + LenAfterLastNL(change.text)
                   ELSE c1 + Len(change.text)
              ELSE c1
        l2 == IF isIns THEN l1 + nl ELSE l1
    IN  IF isBefore(re, position) THEN Pos(l2, c2) ELSE position

\* getUpdatedPosition: the position after the change
getUpdatedPosition(position, change) ==
    LET rs == change.range.start
        re == change.range.end
        nl == CountNL(change.text)
        \* deletion part
        isDel == ~isEqual(rs, re)
        c1 == IF isDel /\ re.line = position.line
              THEN position.character - (re.character - rs.character)
              ELSE position.character
        l1 == IF isDel THEN position.line - (re.line - rs.line) ELSE position.line
        \* insertion part
        isIns == change.text # <<>>
        c2 == IF isIns /\ rs.line = l1
              THEN IF nl > 0
                   THEN c1 - rs.character + LenAfterLastNL(change.text)
                   ELSE c1 + Len(change.text)
              ELSE c1
        l2 == IF isIns THEN l1 + nl ELSE l1
    IN  IF isBeforeOrEqual(re, position) THEN Pos(l2, c2) ELSE position

(***************************************************************************)
(* Edit Transformer: the fold of one change into the existing intervals    *)
(* (the loop over toUpdateRanges of getUpdatedRanges).                     *)
(***************************************************************************)
\* the guard shared by the deletion and the addition sub-steps
Touches(change, r) ==
    /\ intersects(change.range, r)
    /\ ~isEqual(change.range.end, r.start)
    /\ ~isEqual(change.range.start, r.end)

\* end of the inserted text: positionAt(offsetAt(start) + text.length)
InsertedEnd(doc, change) ==
    positionAt(doc, offsetAt(doc, change.range.start) + Len(change.text))

\* deletion sub-step when the emission was AIGenerated: the clamped interval
AIClamped(cur, change, doc) ==
    LET aiStart == change.range.end
        aiEnd   == InsertedEnd(doc, change)
        aiRange == Range(aiStart, aiEnd)
        ns == IF contains(aiRange, cur.start) THEN aiEnd ELSE cur.start
        ne == IF contains(aiRange, cur.end) THEN aiStart ELSE cur.end
    IN  Rebuilt(cur, ns, ne)

\* a shrink that moves the start past the deleted range and leaves the end
ShrunkStartOnly(cur, change) ==
    LET ns == IF contains(change.range, cur.start) THEN change.range.end ELSE cur.start
    IN  IF isBefore(cur.end, ns) THEN Null ELSE Rebuilt(cur, ns, cur.end)

\* generic deletion sub-step: the shrunk interval, or Null when inverted
Shrunk(cur, change) ==
    LET ns == IF contains(change.range, cur.start) THEN change.range.end ELSE cur.start
        ne == IF contains(change.range, cur.end) THEN change.range.start ELSE cur.end
    IN  IF isBefore(ne, ns) THEN Null ELSE Rebuilt(cur, ns, ne)

\* the two halves made by the addition sub-step
SplitLeft(r, change) == Rebuilt(r, r.start, change.range.start)

\* a right half stamped anew instead of keeping the creation_ts of its origin
SplitRightRestamped(r, change) ==
    ExtendedRange(change.range.start, r.end, r.type, r.ts + 1, r.author, r.options)

SplitRight(r, change) == Rebuilt(r, change.range.start, r.end)

\* a shift sub-step without the special case of an edit ending at the end of
\* the interval
ShiftedNoSpecialCase(r, change) ==
    Rebuilt(r, getUpdatedPosition(r.start, change), getUpdatedPosition(r.end, change))

\* shift sub-step
Shifted(r, change) ==
    LET ns == getUpdatedPosition(r.start, change)
        ne == IF ~isEqual(r.start, r.end) /\ isEqual(r.end, change.range.end)
              THEN r.end
              ELSE getUpdatedPosition(r.end, change)
    IN  Rebuilt(r, ns, ne)

InsertAt(s, i, x) == SubSeq(s, 1, i - 1) \o <<x>> \o SubSeq(s, i, Len(s))

RECURSIVE FoldFrom(_, _, _, _, _, _)
\* one pass of the loop body for index i and the rest; [upd, add]
FoldFrom(upd, add, i, change, isAI, doc) ==
    IF i > Len(upd) THEN [upd |-> upd, add |-> add]
    ELSE
    LET cur == upd[i]
    IN  IF cur = Null THEN FoldFrom(upd, add, i + 1, change, isAI, doc)
        ELSE
        LET del   == Touches(change, cur) /\ ~isEqual(change.range.start, change.range.end)
            upd1  == IF ~del THEN upd
                     ELSE IF isAI THEN [upd EXCEPT ![i] = Null]
                     ELSE [upd EXCEPT ![i] = Shrunk(cur, change)]
            add1  == IF del /\ isAI THEN Append(add, AIClamped(cur, change, doc)) ELSE add
            updated == upd1[i]
        IN  IF updated = Null THEN FoldFrom(upd1, add1, i + 1, change, isAI, doc)
            ELSE
            LET split == Touches(change, updated) /\ change.text # <<>>
                upd2  == IF split
                         THEN InsertAt([upd1 EXCEPT ![i] = SplitLeft(updated, change)],
                                       i + 1, SplitRight(updated, change))
                         ELSE upd1
                upd3  == [upd2 EXCEPT ![i] = Shifted(upd2[i], change)]
            IN  FoldFrom(upd3, add1, i + 1, change, isAI, doc)

(***************************************************************************)
(* Post-pass: removal of empty intervals that touch another interval.      *)
(***************************************************************************)
RECURSIVE DedupInner(_, _, _, _)
\* the inner loop; rangeI is read once, before the loop
DedupInner(upd, rangeI, i, j) ==
    IF j > Len(upd) THEN upd
    ELSE IF upd[j] = Null THEN DedupInner(upd, rangeI, i, j + 1)
    ELSE
    LET rangeJ == upd[j]
        touch  == isEqual(rangeI.end, rangeJ.start) \/ isEqual(rangeI.start, rangeJ.end)
    IN  IF touch /\ isEqual(rangeJ.start, rangeJ.end)
        THEN DedupInner([upd EXCEPT ![j] = Null], rangeI, i, j + 1)
        ELSE IF touch /\ isEqual(rangeI.start, rangeI.end)
        THEN DedupInner([upd EXCEPT ![i] = Null], rangeI, i, j + 1)
        ELSE DedupInner(upd, rangeI, i, j + 1)

RECURSIVE DedupTouchingEmpties(_, _)
DedupTouchingEmpties(upd, i) ==
    IF i > Len(upd) - 1 THEN upd
    ELSE IF upd[i] = Null THEN DedupTouchingEmpties(upd, i + 1)
    ELSE DedupTouchingEmpties(DedupInner(upd, upd[i], i, i + 1), i + 1)

(***************************************************************************)
(* Provenance kinds, batch reasons and the hint singletons.                *)
(***************************************************************************)
Unknown == "UNKNOWN"
UserEdit == "USER_EDIT"
AIGenerated == "AI_GENERATED"
UndoRedo == "UNDO_REDO"
Paste == "PASTE"
IDEPaste == "IDE_PASTE"

\* vscode.TextDocumentChangeReason, and undefined
Undo == "Undo"
Redo == "Redo"
NoReason == "None"

\* mostRecentInternalCommand.value after a reset
InitialAI ==
    [type |-> "initial", ts |-> {}, insertText |-> <<>>, oldText |-> <<>>,
     range |-> {}, extensionName |-> "", modelId |-> "", engineName |-> "",
     explanation |-> ""]

NoPending == [set |-> FALSE, changes |-> <<>>]

typeMap(type) ==
    CASE type = "onBeforeApplyPatchTool" -> "applyPatch"
      [] type = "onBeforeCreateFileTool" -> "createFile"
      [] type = "onBeforeInsertEditTool" -> "insertEdit"
      [] type = "onBeforeReplaceStringTool" -> "replaceString"
      [] type = "onAfterApplyPatchTool" -> "applyPatch"
      [] type = "onAfterCreateFileTool" -> "createFile"
      [] type = "onAfterInsertEditTool" -> "insertEdit"
      [] type = "onAfterReplaceStringTool" -> "replaceString"
      [] type = "inlineCompletion" -> "inlineCompletion"
      [] type = "onBeforeApplyEdit" -> "applyEdit"
      [] type = "onAfterApplyEdit" -> "applyEdit"
      [] OTHER -> type

\* the options an AIGenerated interval takes from the hint
AIOptions(ai) ==
    [pasteUrl |-> "", pasteTitle |-> "",
     aiName |-> IF ai.extensionName # "" THEN ai.extensionName ELSE "unknown",
     aiModel |-> IF ai.modelId # "" THEN ai.modelId ELSE ai.engineName,
     aiExplanation |-> ai.explanation,
     aiType |-> IF ai.type # "" THEN typeMap(ai.type) ELSE ""]

\* latestClipboardData before the first copy was seen
NoClipboard ==
    [type |-> "undefined", text |-> <<>>, timestamp |-> 0, url |-> "", title |-> "",
     relativePath |-> "", workspacePath |-> ""]

\* the browser helper gave nothing
NoHelper == [present |-> FALSE, text |-> <<>>, timestamp |-> 0, url |-> "", title |-> ""]

\* checkRecentPaste, first half: the helper's answer overwrites the singleton
ClipboardAfterHelper(clip, helper, content, now) ==
    IF helper.present /\ helper.text # <<>> /\ Trim(helper.text) = content
       /\ clip.type # "undefined"
    THEN [type |-> "clipboard_copy", text |-> helper.text,
          timestamp |-> IF helper.timestamp * 1000 # 0 THEN helper.timestamp * 1000 ELSE now,
          url |-> helper.url, title |-> helper.title,
          relativePath |-> "", workspacePath |-> ""]
    ELSE clip

\* checkRecentPaste, second half: does the singleton match the pasted content
RecentPasteMatches(clip, content, now) ==
    /\ clip.type \in {"clipboard_copy", "ide_clipboard_copy"}
    /\ Trim(clip.text) = content
    /\ clip.timestamp > now - ClipboardWindow

\* resolveIDEPaste: the VCS answers are the host's
resolveIDEPaste(workspacePath, relativePath) ==
    [url |-> "origin", title |-> relativePath]

(***************************************************************************)
(* The before-tool branch: the derived edit computed from insertText and   *)
(* oldText.                                                                *)
(***************************************************************************)
Marker == "#"

\* insertText.replaceAll("// ...existing code...", ""), the marker being one token
RECURSIVE StripMarker(_)
StripMarker(t) ==
    IF t = <<>> THEN t
    ELSE IF Head(t) = Marker THEN StripMarker(Tail(t))
    ELSE <<Head(t)>> \o StripMarker(Tail(t))

RECURSIVE StartOffsetLoop(_, _, _)
\* the first while loop; the start offset it leaves (0 for the default)
StartOffsetLoop(old, ins, so) ==
    IF IndexOf(old, Substring(ins, 0, so + 1)) # -1
    THEN IF so + 1 >= Len(ins) THEN 0 ELSE StartOffsetLoop(old, ins, so + 1)
    ELSE so

RECURSIVE EndOffsetLoop(_, _, _, _)
\* the second while loop; the end offset it leaves (the length for the default)
EndOffsetLoop(offOld, ins, so, eo) ==
    IF LastIndexOfFrom(offOld, Substring(ins, eo - 1, Len(ins)), so) # -1
    THEN IF eo - 1 <= 0 THEN Len(ins) ELSE EndOffsetLoop(offOld, ins, so, eo - 1)
    ELSE eo

\* the pending AI-edit batch: one zero-width change
DerivedChanges(old, ins, doc) ==
    LET so     == StartOffsetLoop(old, ins, 0)
        at     == IndexOf(old, Substring(ins, 0, so)) + so
        offOld == Substring(old, at, Len(old))
        eo     == EndOffsetLoop(offOld, ins, so, Len(ins))
    IN  << [range |-> Range(positionAt(doc, at), positionAt(doc, at)),
            text |-> Substring(ins, so, eo)] >>

(***************************************************************************)
(* Edit Transformer: getUpdatedRanges.                                     *)
(***************************************************************************)
\* the start-of-document special case
Normalised(changes) ==
    IF /\ Len(changes) > 1
       /\ changes[Len(changes)].range.end.line = 0
       /\ changes[Len(changes)].range.end.character = 0
    THEN << [range |-> changes[1].range,
             text |-> ReverseJoin([i \in 1..Len(changes) |-> changes[i].text])] >>
    ELSE changes

RECURSIVE InsertSorted(_, _)
\* c put after every change whose start is not before c's (a stable sort)
InsertSorted(sorted, c) ==
    IF sorted = <<>> THEN <<c>>
    ELSE IF compareTo(c.range.start, Head(sorted).range.start) > 0
         THEN <<c>> \o sorted
         ELSE <<Head(sorted)>> \o InsertSorted(Tail(sorted), c)

RECURSIVE SortedChanges(_)
\* [...changes].sort by range.start, descending
SortedChanges(changes) ==
    IF changes = <<>> THEN <<>>
    ELSE InsertSorted(SortedChanges(SubSeq(changes, 1, Len(changes) - 1)),
                      changes[Len(changes)])

\* a paste hint at the change's start, younger than the window
FreshPasteHint(pasteRanges, change, now) ==
    \E k \in 1..Len(pasteRanges) :
        /\ isEqual(pasteRanges[k].start, change.range.start)
        /\ pasteRanges[k].ts > now - PasteWindow

\* the types that keep a short change from being a user edit
BlocksUserEdit(type) ==
    type \in {"onBeforeInsertEditTool", "onBeforeApplyPatchTool",
              "onBeforeCreateFileTool", "onBeforeReplaceStringTool",
              "onAfterReplaceStringTool", "onAfterApplyPatchTool",
              "onBeforeApplyEdit", "onAfterApplyEdit"}

\* the hint is recent enough
AIFresh(ai, now) ==
    \E t \in ai.ts :
        \/ t > now - AIWindow
        \/ ai.type = "inlineCompletion" /\ t > now - InlineAIWindow

\* the AI-matching condition
AIMatches(ai, change, now) ==
    /\ ai.insertText # <<>>
    /\ Includes(Trim(ai.insertText), Trim(change.text))
    /\ AIFresh(ai, now)
    /\ \A p \in ai.range : isEqual(change.range.start, p)

\* the interval [start, positionAt(offsetAt(start) + text.length)]
InsertedSpan(change, doc, type, now, options) ==
    ExtendedRange(change.range.start, InsertedEnd(doc, change), type, now, "", options)

\* what the classifier hands back for one change:
\*   reason   the reason carried on to the next change
\*   new      the intervals pushed for the change (none or one)
\*   isAI     the fold treats the change as AI generated
\*   skip     the change leaves the loop before the fold (continue)
\*   clear, ai, pending, clip   the hint singletons as the change leaves them
Outcome(reason, new, isAI, skip, clear, ai, pending, clip) ==
    [reason |-> reason, new |-> new, isAI |-> isAI, skip |-> skip, clear |-> clear,
     ai |-> ai, pending |-> pending, clip |-> clip]

\* the Paste / IDEPaste branch, clip being the singleton after checkRecentPaste
\* asked the helper
PasteOutcome(change, reason, hit, ai, pending, clip, doc, now) ==
    IF hit /\ clip.type = "ide_clipboard_copy"
    THEN Outcome(IDEPaste,
                 <<InsertedSpan(change, doc, IDEPaste, now,
                      [NoOptions EXCEPT
                          !.pasteUrl = resolveIDEPaste(clip.workspacePath, clip.relativePath).url,
                          !.pasteTitle = resolveIDEPaste(clip.workspacePath, clip.relativePath).title])>>,
                 FALSE, FALSE, FALSE, ai, pending, clip)
    ELSE IF hit
    THEN Outcome(reason,
                 <<InsertedSpan(change, doc, reason, now,
                      [NoOptions EXCEPT !.pasteUrl = clip.url, !.pasteTitle = clip.title])>>,
                 FALSE, FALSE, FALSE, ai, pending, clip)
    ELSE Outcome(reason, <<InsertedSpan(change, doc, reason, now, NoOptions)>>,
                 FALSE, FALSE, FALSE, ai, pending, clip)

\* the before-tool branch for insertEdit and replaceString; ins0 is insertText
\* after the first normalisation
BeforeToolOutcome(reason, ins0, ai, pending, clip, doc) ==
    IF ai.oldText = <<>>
    THEN Outcome(reason, <<>>, FALSE, TRUE, FALSE,
                 [ai EXCEPT !.insertText = ins0], pending, clip)
    ELSE Outcome(reason, <<>>, FALSE, TRUE, FALSE,
                 [ai EXCEPT !.insertText = Trim(StripMarker(ins0))],
                 [set |-> TRUE,
                  changes |-> DerivedChanges(ai.oldText, Trim(StripMarker(ins0)), doc)],
                 clip)

\* the decision table, reason being the reason after the paste-hint test
Decided(change, reason, ai, pending, clip, helper, changes, doc, now) ==
    IF reason \in {Paste, IDEPaste}
    THEN IF Trim(change.text) # <<>>
         THEN PasteOutcome(change, reason,
                  RecentPasteMatches(
                      ClipboardAfterHelper(clip, helper, Trim(change.text), now),
                      Trim(change.text), now),
                  ai, pending,
                  ClipboardAfterHelper(clip, helper, Trim(change.text), now), doc, now)
         ELSE PasteOutcome(change, reason, FALSE, ai, pending, clip, doc, now)
    ELSE IF reason = AIGenerated
    THEN Outcome(reason, <<InsertedSpan(change, doc, AIGenerated, now, AIOptions(ai))>>,
                 TRUE, FALSE, TRUE, ai, pending, clip)
    ELSE IF reason \in {Undo, Redo}
    THEN Outcome(reason, <<InsertedSpan(change, doc, UndoRedo, now, NoOptions)>>,
                 FALSE, FALSE, FALSE, ai, pending, clip)
    ELSE IF Len(Trim(change.text)) <= 1 /\ ~BlocksUserEdit(ai.type)
    THEN Outcome(reason,
                 <<ExtendedRange(change.range.start, change.range.end,
                                 UserEdit, now, "", NoOptions)>>,
                 FALSE, FALSE, FALSE, ai, pending, clip)
    ELSE IF ai.type \in {"onBeforeInsertEditTool", "onBeforeReplaceStringTool"}
    THEN BeforeToolOutcome(reason,
                           IF Trim(ai.insertText) = <<>> THEN <<>> ELSE ai.insertText,
                           ai, pending, clip, doc)
    ELSE IF ai.type \in {"onBeforeApplyPatchTool", "onBeforeCreateFileTool"}
    THEN Outcome(reason, <<>>, FALSE, TRUE, FALSE, ai,
                 [set |-> TRUE, changes |-> changes], clip)
    ELSE IF AIMatches(ai, change, now)
    THEN Outcome(reason, <<InsertedSpan(change, doc, AIGenerated, now, AIOptions(ai))>>,
                 TRUE, FALSE,
                 ai.type \in {"onAfterApplyEdit", "onAfterReplaceStringTool",
                              "onAfterApplyPatchTool"},
                 ai, pending, clip)
    ELSE Outcome(reason, <<>>, FALSE, FALSE, FALSE, ai, pending, clip)

\* the classifier on one change: a fresh paste hint at its start turns the
\* reason into Paste, for this change and the ones after it
Classified(change, reason0, pasteRanges, ai, pending, clip, helper, changes, doc, now) ==
    Decided(change,
            IF FreshPasteHint(pasteRanges, change, now) THEN Paste ELSE reason0,
            ai, pending, clip, helper, changes, doc, now)

\* the loop state after a change: c is the classifier's outcome, folded the
\* result of the fold
Stepped(st, change, c, folded) ==
    [upd |-> folded.upd, add |-> folded.add, reason |-> c.reason,
     clear |-> st.clear \/ c.clear, ai |-> c.ai, pending |-> c.pending, clip |-> c.clip,
     emitted |-> Append(st.emitted,
                        [change |-> change, new |-> c.new, isAI |-> c.isAI,
                         skip |-> c.skip, ai |-> st.ai, before |-> st.upd,
                         after |-> folded.upd])]

\* the new interval is pushed, then the change is folded unless it was skipped
FoldedWith(st, change, c, doc) ==
    Stepped(st, change, c,
            IF c.skip THEN [upd |-> st.upd, add |-> st.add \o c.new]
            ELSE FoldFrom(st.upd, st.add \o c.new, 1, change, c.isAI, doc))

RECURSIVE ChangeLoop(_, _, _, _, _, _, _)
\* the loop over the sorted changes; st is the state the loop carries
ChangeLoop(sorted, st, pasteRanges, helper, changes, doc, now) ==
    IF sorted = <<>> THEN st
    ELSE ChangeLoop(Tail(sorted),
                    FoldedWith(st, Head(sorted),
                               Classified(Head(sorted), st.reason, pasteRanges, st.ai,
                                          st.pending, st.clip, helper, changes, doc, now),
                               doc),
                    pasteRanges, helper, changes, doc, now)

NotNull(s) == SelectSeq(s, LAMBDA r : r # Null)

\* an end of getUpdatedRanges that resets the hint and keeps the pending batch
FinishedKeepsPending(st) ==
    [ranges  |-> NotNull(DedupTouchingEmpties(st.upd, 1)) \o st.add,
     ai      |-> IF st.clear THEN InitialAI ELSE st.ai,
     pending |-> st.pending,
     clip    |-> st.clip,
     emitted |-> st.emitted]

\* the end of getUpdatedRanges: post-pass, concatenation, reset of the hint
Finished(st) ==
    [ranges  |-> NotNull(DedupTouchingEmpties(st.upd, 1)) \o st.add,
     ai      |-> IF st.clear THEN InitialAI ELSE st.ai,
     pending |-> IF st.clear THEN NoPending ELSE st.pending,
     clip    |-> st.clip,
     emitted |-> st.emitted]

\* the loop of getUpdatedRanges over the normalised batch
Looped(ranges, pasteRanges, changes, reason, doc, ai, pending, clip, helper, now) ==
    ChangeLoop(SortedChanges(changes),
               [upd |-> ranges, add |-> <<>>, reason |-> reason, clear |-> FALSE,
                ai |-> ai, pending |-> pending, clip |-> clip, emitted |-> <<>>],
               pasteRanges, helper, changes, doc, now)

\* getUpdatedRanges: the new store, the hint singletons as the call leaves
\* them, and what each change of the batch emitted
getUpdatedRanges(ranges, pasteRanges, changes0, reason, doc, ai, pending, clip, helper, now) ==
    Finished(Looped(ranges, pasteRanges, Normalised(changes0), reason, doc, ai, pending,
                    clip, helper, now))

(***************************************************************************)
(* Log Merger: deduplicateRanges and mergeRangesSequentially.              *)
(***************************************************************************)
\* the fields deduplicateRanges compares
IsDuplicate(existing, range) ==
    /\ isEqual(existing.start, range.start)
    /\ isEqual(existing.end, range.end)
    /\ existing.type = range.type
    /\ existing.ts = range.ts
    /\ existing.author = range.author
    /\ existing.options.pasteUrl = range.options.pasteUrl
    /\ existing.options.pasteTitle = range.options.pasteTitle
    /\ existing.options.aiName = range.options.aiName
    /\ existing.options.aiModel = range.options.aiModel
    /\ existing.options.aiExplanation = range.options.aiExplanation

RECURSIVE DedupLoop(_, _)
DedupLoop(ranges, uniqueRanges) ==
    IF ranges = <<>> THEN uniqueRanges
    ELSE DedupLoop(Tail(ranges),
                   IF \E k \in 1..Len(uniqueRanges) : IsDuplicate(uniqueRanges[k], Head(ranges))
                   THEN uniqueRanges
                   ELSE Append(uniqueRanges, Head(ranges)))

deduplicateRanges(ranges) == DedupLoop(ranges, <<>>)

\* the piece [a, b] with the provenance of r, when it is not empty
Slice(r, a, b) ==
    IF isEqual(Rebuilt(r, a, b).start, Rebuilt(r, a, b).end) THEN <<>> ELSE <<Rebuilt(r, a, b)>>

\* what is kept of the loser: the parts of it outside the winner
PartsOutside(loser, winner) ==
    IF isBefore(loser.start, winner.start) /\ isBefore(winner.end, loser.end)
    THEN Slice(loser, loser.start, winner.start) \o Slice(loser, winner.end, loser.end)
    ELSE (IF isBefore(loser.start, winner.start)
          THEN Slice(loser, loser.start, winner.start) ELSE <<>>)
         \o (IF isBefore(winner.end, loser.end)
             THEN Slice(loser, winner.end, loser.end) ELSE <<>>)

\* a merger that drops the whole of an older range overlapped by a newer one
NewerWinsDropsOlder(existingRange, newRange) == <<>>

\* the new range is newer: the existing range keeps its parts outside it
NewerWins(existingRange, newRange) == PartsOutside(existingRange, newRange)

\* the existing range is newer or as old: it stays, and the new range keeps
\* its parts outside it
ExistingWins(existingRange, newRange) ==
    PartsOutside(newRange, existingRange) \o <<existingRange>>

RECURSIVE OverlapLoop(_, _, _, _)
\* the loop over rangesToProcess: [resultingRanges, shouldAddNewRange]
OverlapLoop(rangesToProcess, newRange, resultingRanges, shouldAddNewRange) ==
    IF rangesToProcess = <<>>
    THEN [resultingRanges |-> resultingRanges, shouldAddNewRange |-> shouldAddNewRange]
    ELSE IF newRange.ts > Head(rangesToProcess).ts
    THEN OverlapLoop(Tail(rangesToProcess), newRange,
                     resultingRanges \o NewerWins(Head(rangesToProcess), newRange),
                     shouldAddNewRange)
    ELSE OverlapLoop(Tail(rangesToProcess), newRange,
                     resultingRanges \o ExistingWins(Head(rangesToProcess), newRange),
                     FALSE)

\* the overlap test of the merger
Overlaps(existingRange, newRange) ==
    isBefore(existingRange.start, newRange.end) /\ isBefore(newRange.start, existingRange.end)

\* the merged list once the overlaps of newRange were processed
WithProcessed(kept, processed, newRange) ==
    kept \o processed.resultingRanges
         \o (IF processed.shouldAddNewRange THEN <<newRange>> ELSE <<>>)

\* one new range merged into the list
MergeOne(mergedRanges, newRange) ==
    IF \A k \in 1..Len(mergedRanges) : ~Overlaps(mergedRanges[k], newRange)
    THEN Append(mergedRanges, newRange)
    ELSE WithProcessed(SelectSeq(mergedRanges, LAMBDA r : ~Overlaps(r, newRange)),
                       OverlapLoop(SelectSeq(mergedRanges, LAMBDA r : Overlaps(r, newRange)),
                                   newRange, <<>>, TRUE),
                       newRange)

RECURSIVE MergeLoop(_, _)
MergeLoop(mergedRanges, newRanges) ==
    IF newRanges = <<>> THEN mergedRanges
    ELSE MergeLoop(MergeOne(mergedRanges, Head(newRanges)), Tail(newRanges))

RECURSIVE InsertByStart(_, _)
\* r put before the first range whose start is after r's (a stable sort)
InsertByStart(sorted, r) ==
    IF sorted = <<>> THEN <<r>>
    ELSE IF isBefore(r.start, Head(sorted).start)
         THEN <<r>> \o sorted
         ELSE <<Head(sorted)>> \o InsertByStart(Tail(sorted), r)

RECURSIVE SortByStart(_)
\* uniqueRanges.sort by start line, then start character
SortByStart(ranges) ==
    IF ranges = <<>> THEN <<>>
    ELSE InsertByStart(SortByStart(SubSeq(ranges, 1, Len(ranges) - 1)), ranges[Len(ranges)])

mergeRangesSequentially(existingRanges, newRanges) ==
    SortByStart(deduplicateRanges(MergeLoop(existingRanges, newRanges)))

(***************************************************************************)
(* Edit Coalescer: mergeUserEdits.                                         *)
(***************************************************************************)
\* userEdits.filter(type === UserEdit).sort by start line, then character
UserEditRanges(userEdits) ==
    SortByStart(SelectSeq(userEdits, LAMBDA r : r.type = UserEdit))

\* userEdits.filter(type !== UserEdit)
NonUserEdits(userEdits) == SelectSeq(userEdits, LAMBDA r : r.type # UserEdit)

\* previous.end.isEqual(current.start)
AreAdjacent(previous, current) == isEqual(previous.end, current.start)

\* Math.abs(current.ts - previous.ts) < 60000
WithinTimeLimit(previous, current) ==
    (IF current.ts >= previous.ts THEN current.ts - previous.ts
                                   ELSE previous.ts - current.ts) < CoalesceWindow

\* Math.min(...currentGroup.map(r => r.getCreationTimestamp()))
EarliestTimestamp(currentGroup) ==
    CHOOSE t \in {currentGroup[k].ts : k \in 1..Len(currentGroup)} :
        \A k \in 1..Len(currentGroup) : t <= currentGroup[k].ts

\* a coalescer that stamps a merged group with the time of its first interval
ProcessedGroupFirstStamp(currentGroup) ==
    IF Len(currentGroup) > 1
    THEN <<ExtendedRange(currentGroup[1].start, currentGroup[Len(currentGroup)].end,
                         UserEdit, currentGroup[1].ts,
                         currentGroup[1].author, currentGroup[1].options)>>
    ELSE <<currentGroup[1]>>

\* what a finished group adds to mergedRanges
ProcessedGroup(currentGroup) ==
    IF Len(currentGroup) > 1
    THEN <<ExtendedRange(currentGroup[1].start, currentGroup[Len(currentGroup)].end,
                         UserEdit, EarliestTimestamp(currentGroup),
                         currentGroup[1].author, currentGroup[1].options)>>
    ELSE <<currentGroup[1]>>

RECURSIVE GroupLoop(_, _, _)
\* the loop over userEditRanges[1..], then the last group
GroupLoop(rest, currentGroup, mergedRanges) ==
    IF rest = <<>> THEN mergedRanges \o ProcessedGroup(currentGroup)
    ELSE IF /\ AreAdjacent(currentGroup[Len(currentGroup)], Head(rest))
            /\ WithinTimeLimit(currentGroup[Len(currentGroup)], Head(rest))
         THEN GroupLoop(Tail(rest), Append(currentGroup, Head(rest)), mergedRanges)
         ELSE GroupLoop(Tail(rest), <<Head(rest)>>,
                        mergedRanges \o ProcessedGroup(currentGroup))

mergeUserEdits(userEdits) ==
    IF Len(UserEditRanges(userEdits)) <= 1 THEN userEdits
    ELSE GroupLoop(Tail(UserEditRanges(userEdits)), <<Head(UserEditRanges(userEdits))>>, <<>>)
            \o NonUserEdits(userEdits)

(***************************************************************************)
(* Persistence: the payload onSave serializes and what the loader makes of *)
(* it.                                                                     *)
(***************************************************************************)
\* a save that writes the whole coalesced store
ChangesToSaveUnfiltered(fileChanges, loadTs) == mergeUserEdits(fileChanges)

\* a save whose filter is turned around: it keeps what was there at load
ChangesToSaveBeforeLoad(fileChanges, loadTs) ==
    SelectSeq(mergeUserEdits(fileChanges), LAMBDA change : change.ts <= loadTs)

\* mergeUserEdits(fileState.changes).filter(creationTimestamp > loadTimestamp)
ChangesToSave(fileChanges, loadTs) ==
    SelectSeq(mergeUserEdits(fileChanges), LAMBDA change : change.ts > loadTs)

\* change.getAuthor() || currentUser || 'an unknown user' (repository storage)
SavedAuthor(change, currentUser) ==
    IF change.author # "" THEN change.author
    ELSE IF currentUser # "" THEN currentUser
    ELSE "an unknown user"

\* the object a change is mapped to in dataToSave: it has no aiType
SerializedChange(change, currentUser) ==
    [start |-> change.start,
     end |-> change.end,
     type |-> change.type,
     creationTimestamp |-> change.ts,
     author |-> SavedAuthor(change, currentUser),
     pasteUrl |-> change.options.pasteUrl,
     pasteTitle |-> change.options.pasteTitle,
     aiName |-> change.options.aiName,
     aiModel |-> change.options.aiModel,
     aiExplanation |-> change.options.aiExplanation]

\* dataToSave.changes
DataToSave(fileChanges, loadTs, currentUser) ==
    [k \in 1..Len(ChangesToSave(fileChanges, loadTs)) |->
        SerializedChange(ChangesToSave(fileChanges, loadTs)[k], currentUser)]

\* the interval the loader builds from a serialized change: an absent field
\* reads as undefined, which || "" turns into ""
DeserializedChange(change) ==
    ExtendedRange(Pos(change.start.line, change.start.character),
                  Pos(change.end.line, change.end.character),
                  change.type, change.creationTimestamp,
                  IF "author" \in DOMAIN change THEN change.author ELSE "",
                  [f \in DOMAIN NoOptions |->
                      IF f \in DOMAIN change THEN change[f] ELSE ""])

\* newChanges of the loader for one record
Deserialized(record) == [k \in 1..Len(record) |-> DeserializedChange(record[k])]

(***************************************************************************)
(* State of the extension for one tracked document.                        *)
(***************************************************************************)
VARIABLES
    doc,            \* the host's document: the lengths of its lines
    hasState,       \* globalFileState holds a FileState for the document
    changes,        \* fileState.changes: the interval store
    pasteRanges,    \* fileState.pasteRanges: the paste hints
    loadTimestamp,  \* fileState.loadTimestamp
    aiCommand,      \* mostRecentInternalCommand.value
    aiPending,      \* mostRecentInternalCommand.document and .changes
    clipboard,      \* latestClipboardData
    now,            \* Date.now()
    savedLog,       \* the record file at fileState.savePath: what the last save wrote
    nEvents,        \* events delivered so far
    last,           \* the last event delivered and what the transformer did with it
    editLock,       \* the Mutex of the extension: its holder and its waiters
    calls,          \* the entry points called so far and the accesses they made
    path            \* the document's path relative to the workspace folder

vars == <<doc, hasState, changes, pasteRanges, loadTimestamp, aiCommand, aiPending,
          clipboard, now, savedLog, nEvents, last, editLock, calls, path>>

(***************************************************************************)
(* Inputs.                                                                 *)
(***************************************************************************)
Alphabet == {"a", NL}

RECURSIVE TextsOfLen(_)
TextsOfLen(n) ==
    IF n = 0 THEN {<<>>}
    ELSE {Append(t, ch) : t \in TextsOfLen(n - 1), ch \in Alphabet}

Texts == UNION {TextsOfLen(n) : n \in 0..MaxTextLen}

\* the documents of the model: up to MaxLines lines of up to MaxCols characters
Docs == UNION {[1..n -> 0..MaxCols] : n \in 1..MaxLines}

DocInBounds(d) == Len(d) <= MaxLines /\ \A l \in 1..Len(d) : d[l] <= MaxCols

Positions(d) == UNION {{Pos(l - 1, c) : c \in 0..d[l]} : l \in 1..Len(d)}

Ranges(d) ==
    {[start |-> s, end |-> e] : s \in Positions(d), e \in Positions(d)} \cap
    {r \in [start : Positions(d), end : Positions(d)] : isBeforeOrEqual(r.start, r.end)}

\* the content changes the host can report for document d
Changes(d) ==
    {c \in [range : Ranges(d), text : Texts] :
        /\ ~(isEqual(c.range.start, c.range.end) /\ c.text = <<>>)
        /\ Len(d) - (c.range.end.line - c.range.start.line) + CountNL(c.text) <= MaxLines}

\* the host applies the changes of a batch from the end of the document on
RECURSIVE ApplyBatch(_, _)
ApplyBatch(d, sorted) ==
    IF sorted = <<>> THEN d ELSE ApplyBatch(ApplyChange(d, Head(sorted)), Tail(sorted))

\* batches of one change, and of two changes over disjoint ranges that leave
\* the document within the bounds.  The order of a batch decides only the
\* start-of-document special case (the last change ends at 0:0), so a pair is
\* listed from the end of the document on, and in the other order too when
\* its first change ends at 0:0
Batches(d) ==
    {b \in {<<c>> : c \in Changes(d)} \cup
           {<<c1, c2>> : c1 \in Changes(d), c2 \in Changes(d)} :
        /\ Len(b) = 2 =>
              \/ isBefore(b[2].range.end, b[1].range.start)
              \/ /\ isBefore(b[1].range.end, b[2].range.start)
                 /\ isEqual(b[1].range.end, Pos(0, 0))
        /\ DocInBounds(ApplyBatch(d, SortedChanges(b)))}

HostReasons == {NoReason, Undo, Redo}

TickDeltas == {PasteWindow, PastePrune}

AIText == <<"a", "a">>

\* the payloads other extensions send to tabd._internal at time t; the sender
\* stamps them, so a payload may be old on arrival
AIPayloads(t) ==
    LET p == [InitialAI EXCEPT !.insertText = AIText,
                               !.extensionName = "copilot", !.modelId = "gpt"]
    IN  { [p EXCEPT !.ts = {ts}, !.type = "inlineCompletion"] :
            ts \in {t, t - AIWindow, t - InlineAIWindow} }
        \cup
        { [p EXCEPT !.ts = {ts}, !.type = "onAfterApplyEdit"] : ts \in {t, t - AIWindow} }
        \cup
        { [p EXCEPT !.ts = {t}, !.type = "inlineCompletion", !.range = {Pos(0, 0)}],
          [p EXCEPT !.ts = {t}, !.type = "onBeforeInsertEditTool", !.oldText = <<"a">>],
          [p EXCEPT !.ts = {t}, !.type = "onBeforeApplyPatchTool"] }

ClipText == <<"a">>

Helpers ==
    {NoHelper,
     [present |-> TRUE, text |-> ClipText, timestamp |-> 0, url |-> "web", title |-> "page"]}

\* the record of the last event: the handler, its batch (in the order of
\* processing) and reason, whether the transformer ran, what each change
\* emitted, and the store before the event
\* a path is the sequence of its components, a component the sequence of its
\* characters: src/m.c, .e and .g/c
TrackedPath == << <<"s", "r", "c">>, <<"m", ".", "c">> >>

Paths == {TrackedPath, << <<".", "e">> >>, << <<".", "g">>, <<"c">> >>}

\* String.prototype.startsWith('.')
StartsWithDot(name) == name # <<>> /\ Head(name) = "."

\* shouldProcessFile: the name of the file (its last component without the
\* extension, which begins as the component does) and every directory of the
\* path must not begin with a dot
shouldProcessFile(p) ==
    /\ ~StartsWithDot(p[Len(p)])
    /\ \A k \in 1..(Len(p) - 1) : ~StartsWithDot(p[k])

\* fileState.savePath is not set: the session wrote no record file yet
NoLog == [written |-> FALSE, changes |-> <<>>]

NoEvent == [op |-> "none", batch |-> <<>>, reason |-> NoReason, applied |-> FALSE,
            emitted |-> <<>>, prev |-> <<>>]

\* a call of an entry point: its number in the order of arrival, the entry
\* point and the document it is about
NoCall == [id |-> 0, entry |-> "none", file |-> "none"]

\* new Mutex(): nobody holds the lock, nobody waits for it
Unlocked == [holder |-> NoCall, waiters |-> <<>>]

\* no entry point was called yet: the calls that arrived, the calls whose
\* effect on the state is complete, and the last access of the state with
\* the holder of the lock at that moment
NoCalls == [arrived |-> <<>>, effects |-> <<>>,
            access |-> [by |-> NoCall, holder |-> NoCall]]

Init ==
    /\ doc \in Docs
    /\ hasState = FALSE
    /\ changes = <<>>
    /\ pasteRanges = <<>>
    /\ loadTimestamp = 0
    /\ aiCommand = InitialAI
    /\ aiPending = NoPending
    /\ clipboard = NoClipboard
    /\ now = ClipboardWindow
    /\ savedLog = NoLog
    /\ nEvents = 0
    /\ last = NoEvent
    /\ editLock = Unlocked
    /\ calls = NoCalls
    /\ path \in Paths

(***************************************************************************)
(* Session Coordinator.                                                    *)
(***************************************************************************)
\* the handler stores what the transformer returned
Stored(res, op, batch, reason) ==
    /\ changes' = res.ranges
    /\ aiCommand' = res.ai
    /\ aiPending' = res.pending
    /\ clipboard' = res.clip
    /\ last' = [op |-> op, batch |-> batch, reason |-> reason, applied |-> TRUE,
                emitted |-> res.emitted, prev |-> changes]

\* onDidChangeTextDocument: the host has applied the batch to the document;
\* the first event of a document only creates its FileState
EditDelivered(batch, reason, helper, newDoc) ==
    /\ doc' = newDoc
    /\ IF ~hasState
       THEN /\ hasState' = TRUE
            /\ changes' = <<>>
            /\ pasteRanges' = <<>>
            /\ loadTimestamp' = now - 1
            /\ UNCHANGED <<aiCommand, aiPending, clipboard>>
            /\ last' = [op |-> "edit", batch |-> SortedChanges(batch), reason |-> reason,
                        applied |-> FALSE, emitted |-> <<>>, prev |-> changes]
       ELSE /\ Stored(getUpdatedRanges(changes, pasteRanges, batch, reason, newDoc,
                                       aiCommand, aiPending, clipboard, helper, now),
                      "edit", SortedChanges(batch), reason)
            /\ UNCHANGED <<hasState, pasteRanges, loadTimestamp>>

OnEditBatch ==
    /\ nEvents < MaxEvents
    /\ shouldProcessFile(path)
    /\ \E batch \in Batches(doc), reason \in HostReasons,
          helper \in IF pasteRanges = <<>> THEN {NoHelper} ELSE Helpers :
        EditDelivered(batch, reason, helper, ApplyBatch(doc, SortedChanges(batch)))
    /\ nEvents' = nEvents + 1
    /\ UNCHANGED <<now, savedLog, editLock, calls, path>>

RECURSIVE LoadLoop(_, _)
\* the loop of the loader over the persisted logs, oldest first
LoadLoop(updatedRanges, logs) ==
    IF logs = <<>> THEN updatedRanges
    ELSE LoadLoop(mergeRangesSequentially(updatedRanges, Head(logs)), Tail(logs))

\* what the log directory of document d may hold: nothing, or one log of an
\* earlier session with one interval over the first line
DiskLogs(d) ==
    { <<>>,
      << << ExtendedRange(Pos(0, 0), Pos(0, d[1]), UserEdit, LogOld, "author", NoOptions) >> >> }

\* a record of the log: whether JSON.parse accepts it, its version, whether
\* its changes are an array of serialized changes, and the changes it holds
GoodRecord(log) == [parses |-> TRUE, version |-> 1, shaped |-> TRUE, changes |-> log]

\* what the records of document d may be: none, one record, or a malformed
\* record (no JSON, another version, no array of changes) before it
DiskRecords(d) ==
    {<<>>}
    \cup {<<GoodRecord(log[1])>> : log \in DiskLogs(d) \ {<<>>}}
    \cup UNION {{ <<[GoodRecord(log[1]) EXCEPT !.parses = FALSE], GoodRecord(log[1])>>,
                  <<[GoodRecord(log[1]) EXCEPT !.version = 2], GoodRecord(log[1])>>,
                  <<[GoodRecord(log[1]) EXCEPT !.shaped = FALSE], GoodRecord(log[1])>> } :
                log \in DiskLogs(d) \ {<<>>}}

\* tabd.storage: record files (repository, homeDirectory) or git notes
StorageTypes == {"repository", "experimental"}

RECURSIVE FileLoop(_, _)
\* the loop over the record files: JSON.parse and the map over the changes
\* are inside try/catch, a record of another version is passed over
FileLoop(updatedRanges, records) ==
    IF records = <<>> THEN updatedRanges
    ELSE IF ~Head(records).parses \/ Head(records).version # 1 \/ ~Head(records).shaped
    THEN FileLoop(updatedRanges, Tail(records))
    ELSE FileLoop(mergeRangesSequentially(updatedRanges, Head(records).changes),
                  Tail(records))

\* loadFromGitNotes: the notes that parse and have version 1
loadFromGitNotes(records) ==
    SelectSeq(records, LAMBDA r : r.parses /\ r.version = 1)

RECURSIVE NotesLoop(_, _)
\* the loop over the notes: nothing catches the map over the changes
NotesLoop(updatedRanges, notes) ==
    IF notes = <<>> THEN [thrown |-> FALSE, ranges |-> updatedRanges]
    ELSE IF Head(notes).version # 1 THEN NotesLoop(updatedRanges, Tail(notes))
    ELSE IF ~Head(notes).shaped THEN [thrown |-> TRUE, ranges |-> updatedRanges]
    ELSE NotesLoop(mergeRangesSequentially(updatedRanges, Head(notes).changes),
                   Tail(notes))

\* fileState.changes when the loader is over: the FileState is created with
\* an empty store, which stays when the loader throws
LoadedChanges(storage, records) ==
    IF storage = "experimental"
    THEN IF NotesLoop(<<>>, loadFromGitNotes(records)).thrown
         THEN <<>>
         ELSE NotesLoop(<<>>, loadFromGitNotes(records)).ranges
    ELSE FileLoop(<<>>, records)

\* onDidChangeActiveTextEditor: the document's FileState is created from the
\* persisted records; when the document has a FileState already the loader
\* returns at once
OnActivate ==
    /\ nEvents < MaxEvents
    /\ shouldProcessFile(path)
    /\ \E storage \in StorageTypes, records \in DiskRecords(doc) :
        /\ changes' = IF hasState THEN changes ELSE LoadedChanges(storage, records)
        /\ last' = [op |-> IF hasState THEN "activateLoaded" ELSE "activate",
                    batch |-> records, reason |-> NoReason, applied |-> FALSE,
                    emitted |-> <<>>, prev |-> changes, storage |-> storage]
    /\ hasState' = TRUE
    /\ pasteRanges' = IF hasState THEN pasteRanges ELSE <<>>
    /\ loadTimestamp' = IF hasState THEN loadTimestamp ELSE now - 1
    /\ nEvents' = nEvents + 1
    /\ UNCHANGED <<doc, aiCommand, aiPending, clipboard, now, savedLog, editLock, calls, path>>

RECURSIVE PasteLoop(_, _, _)
\* the loop of notifyPaste: prune, then push the hint of each range
PasteLoop(hints, ranges, t) ==
    IF ranges = <<>> THEN hints
    ELSE PasteLoop(
            Append(SelectSeq(hints, LAMBDA h : h.ts > t - PastePrune),
                   ExtendedRange(Head(ranges).start, Head(ranges).end, Paste, t, "", NoOptions)),
            Tail(ranges), t)

\* notifyPaste: the paste provider reports the ranges about to be pasted over,
\* here the cursor
NotifyPaste ==
    /\ nEvents < MaxEvents
    /\ shouldProcessFile(path)
    /\ \E s \in Positions(doc) :
        pasteRanges' = PasteLoop(pasteRanges, <<Range(s, s)>>, now)
    /\ hasState' = TRUE
    /\ loadTimestamp' = IF hasState THEN loadTimestamp ELSE now - 1
    /\ nEvents' = nEvents + 1
    /\ last' = [NoEvent EXCEPT !.op = "paste", !.prev = changes]
    /\ UNCHANGED <<doc, changes, aiCommand, aiPending, clipboard, now, savedLog, editLock, calls, path>>

\* the clock advances between two events
Tick ==
    /\ nEvents < MaxEvents
    /\ \E d \in TickDeltas : now' = now + d
    /\ nEvents' = nEvents + 1
    /\ last' = [NoEvent EXCEPT !.op = "tick", !.prev = changes]
    /\ UNCHANGED <<savedLog, editLock, calls, path, doc, hasState, changes, pasteRanges, loadTimestamp, aiCommand,
                   aiPending, clipboard>>

\* tabd._internal for the types that only record the hint
OnInternalAICommand ==
    /\ nEvents < MaxEvents
    /\ \E payload \in AIPayloads(now) : aiCommand' = payload
    /\ nEvents' = nEvents + 1
    /\ last' = [NoEvent EXCEPT !.op = "ai", !.prev = changes]
    /\ UNCHANGED <<savedLog, editLock, calls, path, doc, hasState, changes, pasteRanges, loadTimestamp, aiPending,
                   clipboard, now>>

\* tabd._internal, _type postInsertEdit: the pending AI-edit batch is applied
\* with reason AIGenerated; without a pending document or a FileState the
\* handler throws and nothing changes
OnPostInsertEdit ==
    /\ nEvents < MaxEvents
    /\ IF aiPending.set /\ hasState
       THEN Stored(getUpdatedRanges(changes, pasteRanges, aiPending.changes, AIGenerated,
                                    doc, aiCommand, aiPending, clipboard, NoHelper, now),
                   "postInsertEdit", aiPending.changes, AIGenerated)
       ELSE /\ UNCHANGED <<changes, aiCommand, aiPending, clipboard>>
            /\ last' = [NoEvent EXCEPT !.op = "postInsertEdit", !.prev = changes]
    /\ nEvents' = nEvents + 1
    /\ UNCHANGED <<doc, hasState, pasteRanges, loadTimestamp, now, savedLog, editLock, calls, path>>

\* the insertText of a createFile payload
CreateFileTexts == {AIText, <<"a">>}

\* the synthetic edit of createFile
CreateFileBatch(text) == << [range |-> Range(Pos(0, 0), Pos(0, 0)), text |-> text] >>

CreateFilePayload(text, ts) ==
    [InitialAI EXCEPT !.type = "createFile", !.ts = {ts}, !.insertText = text,
                      !.extensionName = "copilot"]

\* tabd._internal, _type createFile: the hint is recorded, then one synthetic
\* insertion at (0,0) is applied with no reason
OnCreateFile ==
    /\ nEvents < MaxEvents
    /\ \E text \in CreateFileTexts, ts \in {now, now - AIWindow} :
        Stored(getUpdatedRanges(IF hasState THEN changes ELSE <<>>,
                                IF hasState THEN pasteRanges ELSE <<>>,
                                CreateFileBatch(text),
                                NoReason, doc, CreateFilePayload(text, ts), aiPending,
                                clipboard, NoHelper, now),
               "createFile", CreateFileBatch(text), NoReason)
    /\ hasState' = TRUE
    /\ loadTimestamp' = IF hasState THEN loadTimestamp ELSE now - 1
    /\ nEvents' = nEvents + 1
    /\ UNCHANGED <<doc, pasteRanges, now, savedLog, editLock, calls, path>>

\* what getCurrentGitUser may give for currentUser
GitUsers == {"", "me"}

\* how a save ends: the record is written, the write fails (write error,
\* record path taken), or nothing is attempted (no workspace folder, no git
\* work tree)
SaveOutcomes == {"save", "saveFailed", "saveSkipped"}

\* a save handler that restarts the "new since load" window after writing
SaveRestartsLoadWindow ==
    /\ loadTimestamp' = now - 1
    /\ UNCHANGED <<editLock, calls, path, doc, hasState, changes, pasteRanges, aiCommand,
                   aiPending, clipboard, now>>

\* the save handler assigns nothing of the FileState but savePath
SaveKeepsState ==
    UNCHANGED <<editLock, calls, path, doc, hasState, changes, pasteRanges, loadTimestamp, aiCommand,
                aiPending, clipboard, now>>

\* onDidSaveTextDocument: the payload goes to the record file of the session,
\* made at the first successful write and written over by the later ones;
\* for an empty store the handler returns before anything else
OnSave ==
    /\ nEvents < MaxEvents
    /\ shouldProcessFile(path)
    /\ hasState
    /\ changes # <<>>
    /\ \E currentUser \in GitUsers, outcome \in SaveOutcomes :
        /\ savedLog' = IF outcome = "save"
                       THEN [written |-> TRUE,
                             changes |-> DataToSave(changes, loadTimestamp, currentUser)]
                       ELSE savedLog
        /\ last' = [NoEvent EXCEPT !.op = outcome,
                                   !.batch = DataToSave(changes, loadTimestamp, currentUser),
                                   !.prev = changes]
    /\ nEvents' = nEvents + 1
    /\ SaveKeepsState

Next ==
    \/ OnActivate
    \/ OnEditBatch
    \/ NotifyPaste
    \/ OnInternalAICommand
    \/ OnPostInsertEdit
    \/ OnCreateFile
    \/ OnSave
    \/ Tick

Spec == Init /\ [][Next]_vars

(***************************************************************************)
(* Log Merger at load: loadGlobalFileStateForDocumentFromDisk merges the   *)
(* persisted logs of a document one after the other.                       *)
(***************************************************************************)
\* kind, creation_ts and options of the intervals found in the logs
LogStamps ==
    { [type |-> UserEdit, ts |-> LogOld, options |-> NoOptions],
      [type |-> AIGenerated, ts |-> LogNew, options |-> NoOptions],
      [type |-> AIGenerated, ts |-> LogNew,
       options |-> [NoOptions EXCEPT !.aiType = "inlineCompletion"]] }

\* the intervals a serialized change deserializes to
LogIntervals ==
    {ExtendedRange(Pos(0, a), Pos(0, b), st.type, st.ts, "", st.options) :
        a \in 0..MaxCols, b \in 0..MaxCols, st \in LogStamps}

\* the changes of one log
Logs ==
    UNION {[1..n -> LogIntervals] : n \in 1..MaxLogLen}

\* the loader after the first log: updatedRanges = merge([], newChanges)
MergeInit ==
    /\ doc \in {<<MaxCols>>}
    /\ hasState = TRUE
    /\ changes \in {mergeRangesSequentially(<<>>, log) : log \in Logs}
    /\ pasteRanges = <<>>
    /\ loadTimestamp = ClipboardWindow - 1
    /\ aiCommand = InitialAI
    /\ aiPending = NoPending
    /\ clipboard = NoClipboard
    /\ now = ClipboardWindow
    /\ savedLog = NoLog
    /\ nEvents = 0
    /\ last = NoEvent
    /\ editLock = Unlocked
    /\ calls = NoCalls
    /\ path = TrackedPath

\* the loader merges the next log into updatedRanges
MergeLog ==
    /\ nEvents = 0
    /\ \E newChanges \in Logs :
        /\ changes' = mergeRangesSequentially(changes, newChanges)
        /\ last' = [NoEvent EXCEPT !.op = "merge", !.batch = newChanges, !.prev = changes]
    /\ nEvents' = nEvents + 1
    /\ UNCHANGED <<savedLog, editLock, calls, path, doc, hasState, pasteRanges, loadTimestamp, aiCommand, aiPending,
                   clipboard, now>>

MergeNext == MergeLog

SpecMerge == MergeInit /\ [][MergeNext]_vars

(***************************************************************************)
(* Edit Coalescer at save: the handler of onDidSaveTextDocument calls      *)
(* mergeUserEdits on the store, which it leaves as it is.                  *)
(***************************************************************************)
\* creation timestamps of a session: t, t + 30 s, t + 70 s
CoalesceStamps == {StampT, StampT + 30000, StampT + 70000}

Authors == {"ann", "bob"}

\* the intervals of a store at save time
CoalesceIntervals ==
    {ExtendedRange(Pos(0, a), Pos(0, b), UserEdit, ts, author, NoOptions) :
        a \in 0..MaxCols, b \in 0..MaxCols, ts \in CoalesceStamps, author \in Authors}
    \cup {ExtendedRange(Pos(0, 0), Pos(0, b), AIGenerated, StampT, "ann", NoOptions) :
            b \in 0..MaxCols}

CoalesceStores ==
    UNION {[1..n -> CoalesceIntervals] : n \in 0..MaxStoreLen}

CoalesceInit ==
    /\ doc \in {<<MaxCols>>}
    /\ hasState = TRUE
    /\ changes \in CoalesceStores
    /\ pasteRanges = <<>>
    /\ loadTimestamp = 0
    /\ aiCommand = InitialAI
    /\ aiPending = NoPending
    /\ clipboard = NoClipboard
    /\ now = ClipboardWindow
    /\ savedLog = NoLog
    /\ nEvents = 0
    /\ last = NoEvent
    /\ editLock = Unlocked
    /\ calls = NoCalls
    /\ path = TrackedPath

\* the save handler coalesces the store: mergeUserEdits(fileState.changes)
Coalesce ==
    /\ nEvents = 0
    /\ last' = [NoEvent EXCEPT !.op = "coalesce", !.batch = mergeUserEdits(changes),
                               !.prev = changes]
    /\ nEvents' = nEvents + 1
    /\ UNCHANGED <<savedLog, editLock, calls, path, doc, hasState, changes, pasteRanges, loadTimestamp, aiCommand,
                   aiPending, clipboard, now>>

CoalesceNext == Coalesce

SpecCoalesce == CoalesceInit /\ [][CoalesceNext]_vars

(***************************************************************************)
(* The lock of the Session Coordinator: which entry points run their       *)
(* accesses of the state inside editLock.runExclusive, and in what order   *)
(* the lock hands the state to them.  The body of every runExclusive       *)
(* callback is synchronous, so it runs to completion once it starts.       *)
(***************************************************************************)
Files == {"f1", "f2"}

\* entry points whose accesses are all inside the callback of runExclusive:
\* onDidChangeTextDocument, notifyPaste, tabd._internal with postInsertEdit
LockedEntries == {"edit", "paste", "postInsertEdit"}

\* entry points that access the state and then call runExclusive:
\* onDidSaveTextDocument tests globalFileState[path], tabd._internal with
\* createFile assigns mostRecentInternalCommand.value
PrefixEntries == {"save", "createFile"}

\* entry points that never take the lock: onDidChangeActiveTextEditor (the
\* loader), onDidChangeConfiguration (globalFileState = {}), tabd._internal
\* with another _type (mostRecentInternalCommand.value = obj), the clipboard
\* timer (latestClipboardData = ...)
FreeEntries == {"activate", "storageConfig", "aiCommand", "clipboardPoller"}

\* the waiter the lock is handed to at a release: the newest one
NextWaiterNewest(waiters) == Len(waiters)

\* the waiter the lock is handed to at a release: the one waiting longest
NextWaiter(waiters) == 1

\* Mutex.acquire for call c: taken at once when free, else c waits
acquire(m, c) ==
    IF m.holder = NoCall THEN [m EXCEPT !.holder = c]
                         ELSE [m EXCEPT !.waiters = Append(@, c)]

\* Mutex.release: the lock goes to the next waiter, if any
release(m) ==
    IF m.waiters = <<>> THEN Unlocked
    ELSE LET i == NextWaiter(m.waiters)
         IN  [holder  |-> m.waiters[i],
              waiters |-> [k \in 1..(Len(m.waiters) - 1) |->
                              IF k < i THEN m.waiters[k] ELSE m.waiters[k + 1]]]

\* the call that arrives next
NewCall(entry, file) == [id |-> Len(calls.arrived) + 1, entry |-> entry, file |-> file]

\* an entry point that goes straight to editLock.runExclusive
Call ==
    /\ Len(calls.arrived) < MaxCalls
    /\ \E entry \in LockedEntries, file \in Files :
        /\ editLock' = acquire(editLock, NewCall(entry, file))
        /\ calls' = [calls EXCEPT !.arrived = Append(@, NewCall(entry, file))]
    /\ UNCHANGED <<path, doc, hasState, changes, pasteRanges, loadTimestamp, aiCommand, aiPending,
                   clipboard, now, savedLog, nEvents, last>>

\* an entry point that accesses the state, then calls editLock.runExclusive
CallAfterAccess ==
    /\ Len(calls.arrived) < MaxCalls
    /\ \E entry \in PrefixEntries, file \in Files :
        /\ editLock' = acquire(editLock, NewCall(entry, file))
        /\ calls' = [calls EXCEPT !.arrived = Append(@, NewCall(entry, file)),
                                  !.access = [by |-> NewCall(entry, file),
                                              holder |-> editLock.holder]]
    /\ UNCHANGED <<path, doc, hasState, changes, pasteRanges, loadTimestamp, aiCommand, aiPending,
                   clipboard, now, savedLog, nEvents, last>>

\* an entry point that does all its work without the lock
CallUnlocked ==
    /\ Len(calls.arrived) < MaxCalls
    /\ \E entry \in FreeEntries, file \in Files :
        calls' = [arrived |-> Append(calls.arrived, NewCall(entry, file)),
                  effects |-> Append(calls.effects, NewCall(entry, file)),
                  access  |-> [by |-> NewCall(entry, file), holder |-> editLock.holder]]
    /\ UNCHANGED <<path, doc, hasState, changes, pasteRanges, loadTimestamp, aiCommand, aiPending,
                   clipboard, now, savedLog, nEvents, last, editLock>>

\* the callback of the holder runs to its end, then the lock is released
RunExclusive ==
    /\ editLock.holder # NoCall
    /\ calls' = [calls EXCEPT !.effects = Append(@, editLock.holder),
                              !.access = [by |-> editLock.holder,
                                          holder |-> editLock.holder]]
    /\ editLock' = release(editLock)
    /\ UNCHANGED <<path, doc, hasState, changes, pasteRanges, loadTimestamp, aiCommand, aiPending,
                   clipboard, now, savedLog, nEvents, last>>

LockNext ==
    \/ Call
    \/ CallAfterAccess
    \/ CallUnlocked
    \/ RunExclusive

SpecLock == Init /\ [][LockNext]_vars

(***************************************************************************)
(* A tool session in progress: the document was activated and an AI tool   *)
(* has announced an edit through tabd._internal.                           *)
(***************************************************************************)
\* the state after onActivate and a before-tool command
ToolInit ==
    /\ doc \in {<<1>>}
    /\ hasState = TRUE
    /\ changes \in {LoadLoop(<<>>, logs) : logs \in DiskLogs(doc)}
    /\ pasteRanges = <<>>
    /\ loadTimestamp = ClipboardWindow - 1
    /\ aiCommand \in {payload \in AIPayloads(ClipboardWindow) :
                         payload.type \in {"onBeforeInsertEditTool",
                                           "onBeforeApplyPatchTool"}}
    /\ aiPending = NoPending
    /\ clipboard = NoClipboard
    /\ now = ClipboardWindow
    /\ savedLog = NoLog
    /\ nEvents = 0
    /\ last = NoEvent
    /\ editLock = Unlocked
    /\ calls = NoCalls
    /\ path = TrackedPath

SpecTool == ToolInit /\ [][Next]_vars

(***************************************************************************)
(* An edit batch long after the last AI command: the document was          *)
(* activated, a command came through tabd._internal, and more than five    *)
(* minutes passed before the next edit.                                    *)
(***************************************************************************)
\* the hints left by a command sent more than InlineAIWindow ago
StaleHints == AIPayloads(ClipboardWindow - InlineAIWindow - 1)

StaleInit ==
    /\ doc \in Docs
    /\ hasState = TRUE
    /\ changes \in {LoadLoop(<<>>, logs) : logs \in DiskLogs(doc)}
    /\ pasteRanges = <<>>
    /\ loadTimestamp = ClipboardWindow - InlineAIWindow - 2
    /\ aiCommand \in StaleHints
    /\ aiPending = NoPending
    /\ clipboard = NoClipboard
    /\ now = ClipboardWindow
    /\ savedLog = NoLog
    /\ nEvents = MaxEvents - 1
    /\ last = NoEvent
    /\ editLock = Unlocked
    /\ calls = NoCalls
    /\ path = TrackedPath

StaleNext == OnEditBatch

SpecStale == StaleInit /\ [][StaleNext]_vars

(***************************************************************************)
(* Position Algebra on its own: getUpdatedPosition applied to a position   *)
(* and a content change.                                                   *)
(***************************************************************************)
ShiftPositions == {Pos(l, c) : l \in 0..ShiftLines, c \in 0..MaxCols}

ShiftChanges ==
    {c \in [range : [start : ShiftPositions, end : ShiftPositions], text : Texts] :
        isBeforeOrEqual(c.range.start, c.range.end)}

\* a position and a change; nothing is computed yet
ShiftInit ==
    /\ doc \in {<<MaxCols>>}
    /\ hasState = TRUE
    /\ changes = <<>>
    /\ pasteRanges = <<>>
    /\ loadTimestamp = 0
    /\ aiCommand = InitialAI
    /\ aiPending = NoPending
    /\ clipboard = NoClipboard
    /\ now = ClipboardWindow
    /\ savedLog = NoLog
    /\ nEvents = 0
    /\ \E position \in ShiftPositions, change \in ShiftChanges :
          last = [NoEvent EXCEPT !.op = "position", !.batch = <<change>>,
                                 !.prev = <<position>>]
    /\ editLock = Unlocked
    /\ calls = NoCalls
    /\ path = TrackedPath

\* getUpdatedPosition(position, change); the result is kept in last.emitted
Shift ==
    /\ nEvents = 0
    /\ last' = [last EXCEPT !.op = "shift",
                            !.emitted = <<getUpdatedPosition(last.prev[1], last.batch[1])>>]
    /\ nEvents' = nEvents + 1
    /\ UNCHANGED <<savedLog, editLock, calls, path, doc, hasState, changes, pasteRanges,
                   loadTimestamp, aiCommand, aiPending, clipboard, now>>

\* getUpdatedPosition applied to the result and a second change
ShiftAgain ==
    /\ nEvents = 1
    /\ \E change \in ShiftChanges :
          last' = [last EXCEPT !.op = "shiftAgain",
                               !.batch = Append(@, change),
                               !.emitted = Append(@, getUpdatedPosition(last.emitted[1], change))]
    /\ nEvents' = nEvents + 1
    /\ UNCHANGED <<savedLog, editLock, calls, path, doc, hasState, changes, pasteRanges,
                   loadTimestamp, aiCommand, aiPending, clipboard, now>>

ShiftNext ==
    \/ Shift
    \/ ShiftAgain

SpecShift == ShiftInit /\ [][ShiftNext]_vars

(***************************************************************************)
(* Properties.                                                             *)
(***************************************************************************)
\* the elements of a sequence
Elems(seq) == {seq[k] : k \in 1..Len(seq)}

\* what the changes of the last batch emitted, change by change
Emitted == Elems(last.emitted)

\* the intervals the last apply emitted
NewIntervals == UNION {Elems(e.new) : e \in Emitted}

\* no change of the last batch starts at a paste hint younger than 200 ms
NoFreshHintInBatch ==
    \A e \in Emitted : ~FreshPasteHint(pasteRanges, e.change, now)

\* p moved right by n columns
Right(p, n) == Pos(p.line, p.character + n)

NoStrictOverlapIn(store) ==
    \A i, j \in 1..Len(store) :
        (i # j /\ ~IsEmptyRange(store[i]) /\ ~IsEmptyRange(store[j]))
            => ~StrictOverlap(store[i], store[j])

\* C1: after every apply of the Edit Transformer, no two non-empty intervals
\* of the store strictly overlap
C1_NoStrictOverlap ==
    last.applied => NoStrictOverlapIn(changes)

\* C2: after every apply of the Edit Transformer, both endpoints of every
\* interval of the store are valid positions of the post-edit document
C2_EndpointsInDocument ==
    last.applied =>
        \A i \in 1..Len(changes) :
            ValidPos(doc, changes[i].start) /\ ValidPos(doc, changes[i].end)

\* C3: every edit batch is applied and its result stored, the first event of
\* a document included: after one typed character with no reason and no hint
\* the store holds the UserEdit interval made for it
C3_EditNeverDiscarded ==
    (/\ last.op = "edit"
     /\ last.reason = NoReason
     /\ Len(last.batch) = 1
     /\ pasteRanges = <<>>
     /\ aiCommand = InitialAI
     /\ last.batch[1].text = <<"a">>
     /\ IsEmptyRange(last.batch[1].range))
        => \E i \in 1..Len(changes) : changes[i].type = UserEdit /\ changes[i].ts = now

\* C4: in a batch with no reason, a change with no paste hint younger than
\* 200 ms at its start is not emitted as Paste or IDEPaste, in a batch of
\* several changes too
C4_NoHintNoPaste ==
    (last.op = "edit" /\ last.applied /\ last.reason = NoReason) =>
        \A e \in Emitted :
            ~FreshPasteHint(pasteRanges, e.change, now)
                => \A n \in Elems(e.new) : n.type \notin {Paste, IDEPaste}

\* C5: one character typed at p, with no reason, no paste hint and no
\* before/after-tool AI hint, adds exactly one interval, UserEdit [p, p + 1]
C5_TypedCharCovered ==
    (last.op = "edit" /\ last.applied /\ last.reason = NoReason /\ pasteRanges = <<>>) =>
        \A e \in Emitted :
            (/\ e.change.text = <<"a">>
             /\ IsEmptyRange(e.change.range)
             /\ ~BlocksUserEdit(e.ai.type))
                => e.new = <<ExtendedRange(e.change.range.start,
                                           Right(e.change.range.start, 1),
                                           UserEdit, now, "", NoOptions)>>

\* the AI-matching condition as the specification words it
HintMatches(e) ==
    /\ e.ai.insertText # <<>>
    /\ Includes(Trim(e.ai.insertText), Trim(e.change.text))
    /\ \E t \in e.ai.ts :
          \/ t > now - 2000
          \/ e.ai.type = "inlineCompletion" /\ t > now - 300000
    /\ \A p \in e.ai.range : isEqual(e.change.range.start, p)

\* the hint is one of the before-tool types, which emit no interval
IsBeforeTool(type) ==
    type \in {"onBeforeInsertEditTool", "onBeforeReplaceStringTool",
              "onBeforeApplyPatchTool", "onBeforeCreateFileTool"}

\* exactly one AIGenerated interval over the inserted text, its aiType taken
\* from the hint through the tool-name map
OneAIInterval(e) ==
    /\ Len(e.new) = 1
    /\ e.new[1].type = AIGenerated
    /\ e.new[1].ts = now
    /\ isEqual(e.new[1].start, e.change.range.start)
    /\ isEqual(e.new[1].end, Right(e.change.range.start, Len(e.change.text)))
    /\ e.new[1].options.aiType = typeMap(e.ai.type)

\* C6: with no reason and no fresh paste hint at any change of the batch, a
\* change whose trimmed text is longer than one character adds an AIGenerated
\* interval if and only if the hint matches: exactly one interval then, from
\* its start to its start plus the length of its text, and none otherwise
\* (the before-tool hints, which have a branch of their own, left aside)
C6_AIMatchIff ==
    (last.op = "edit" /\ last.applied /\ last.reason = NoReason
        /\ NoFreshHintInBatch) =>
        \A e \in Emitted :
            (/\ Len(Trim(e.change.text)) > 1
             /\ CountNL(e.change.text) = 0
             /\ ~IsBeforeTool(e.ai.type))
                => IF HintMatches(e) THEN OneAIInterval(e) ELSE e.new = <<>>

\* C7: an insertion strictly inside an interval splits it into a left half
\* that stays, a right half shifted past the inserted text, both of the
\* interval's kind, and the emitted interval fills the gap between them
C7_SplitAroundInsertion ==
    last.applied =>
        \A e \in Emitted : \A iv \in Elems(e.before) \ {Null} :
            (/\ e.change.text # <<>>
             /\ CountNL(e.change.text) = 0
             /\ IsEmptyRange(e.change.range)
             /\ ~e.isAI /\ ~e.skip
             /\ Len(e.new) = 1
             /\ isBefore(iv.start, e.change.range.start)
             /\ isBefore(e.change.range.start, iv.end))
                => /\ Rebuilt(iv, iv.start, e.change.range.start) \in Elems(e.after)
                   /\ Rebuilt(iv, Right(e.change.range.start, Len(e.change.text)),
                              getUpdatedPosition(iv.end, e.change)) \in Elems(e.after)
                   /\ isEqual(e.new[1].start, e.change.range.start)
                   /\ isEqual(e.new[1].end,
                              Right(e.change.range.start, Len(e.change.text)))

\* C8: a change applied with reason Undo or Redo, no fresh paste hint in the
\* batch, adds exactly one interval, UndoRedo without metadata, from its start
\* to its start plus the length of its text
C8_UndoRedoSpan ==
    (last.op = "edit" /\ last.applied /\ last.reason \in {Undo, Redo}
        /\ NoFreshHintInBatch) =>
        \A e \in Emitted :
            CountNL(e.change.text) = 0
                => e.new = <<ExtendedRange(e.change.range.start,
                                           Right(e.change.range.start, Len(e.change.text)),
                                           UndoRedo, now, "", NoOptions)>>

SameProvenance(a, b) ==
    /\ a.type = b.type
    /\ a.ts = b.ts
    /\ a.author = b.author
    /\ a.options = b.options

\* C9: after an apply, every interval of the store that was not emitted by
\* it has the kind, creation_ts, author and options of an interval of the
\* store before it, and the emitted intervals are stamped with the time of
\* the apply
C9_ProvenanceKept ==
    last.applied =>
        /\ \A n \in NewIntervals : n.ts = now
        /\ \A i \in 1..Len(changes) :
              \/ changes[i] \in NewIntervals
              \/ \E j \in 1..Len(last.prev) : SameProvenance(changes[i], last.prev[j])

\* an interval of the store before the last apply came out of it split or
\* moved, next to an interval emitted at a later time
C9_Witness ==
    /\ last.applied
    /\ \E i \in 1..Len(changes) :
          /\ changes[i] \notin NewIntervals
          /\ changes[i] \notin Elems(last.prev)
          /\ changes[i].ts # now
    /\ Cardinality({i \in 1..Len(changes) : changes[i] \notin NewIntervals})
          > Len(last.prev)

\* C10: a new interval that strictly overlaps store intervals and is newer
\* than every store interval it strictly overlaps is in the output whole, and
\* each of those store intervals is replaced by its non-empty slices outside
\* the new interval
C10_NewerWins ==
    (last.op = "merge" /\ Len(last.batch) = 1
        /\ (\E ov \in Elems(last.prev) : StrictOverlap(ov, last.batch[1]))
        /\ \A ex \in Elems(last.prev) :
              StrictOverlap(ex, last.batch[1]) => last.batch[1].ts > ex.ts)
        => /\ last.batch[1] \in Elems(changes)
           /\ \A ex \in Elems(last.prev) :
                 StrictOverlap(ex, last.batch[1])
                    => /\ ex \notin Elems(changes)
                       /\ isBefore(ex.start, last.batch[1].start)
                            => Rebuilt(ex, ex.start, last.batch[1].start) \in Elems(changes)
                       /\ isBefore(last.batch[1].end, ex.end)
                            => Rebuilt(ex, last.batch[1].end, ex.end) \in Elems(changes)

\* a newer interval was merged strictly inside an older store interval, which
\* left both of its slices
C10_Witness ==
    /\ last.op = "merge" /\ Len(last.batch) = 1
    /\ \E ex \in Elems(last.prev) :
          /\ last.batch[1].ts > ex.ts
          /\ isBefore(ex.start, last.batch[1].start)
          /\ isBefore(last.batch[1].end, ex.end)
          /\ isBefore(last.batch[1].start, last.batch[1].end)
          /\ Rebuilt(ex, ex.start, last.batch[1].start) \in Elems(changes)
          /\ Rebuilt(ex, last.batch[1].end, ex.end) \in Elems(changes)
          /\ last.batch[1] \in Elems(changes)

\* the store intervals the one merged interval strictly overlapped
Overlapped ==
    {ex \in Elems(last.prev) : StrictOverlap(ex, last.batch[1])}

\* what the last merge added to the store
AddedByMerge == Elems(changes) \ Elems(last.prev)

\* c is a non-empty piece of n, with the provenance of n
PieceOf(c, n) ==
    /\ SameProvenance(c, n)
    /\ ~IsEmptyRange(c)
    /\ isBeforeOrEqual(n.start, c.start)
    /\ isBeforeOrEqual(c.end, n.end)

\* C11: when every store interval a new interval strictly overlaps is as old
\* or newer, each of them stays unchanged, the full new interval is not added,
\* and what is added are non-empty parts of it outside those store intervals
C11_ExistingWins ==
    (last.op = "merge" /\ Len(last.batch) = 1
        /\ Overlapped # {}
        /\ \A ex \in Overlapped : ex.ts >= last.batch[1].ts)
        => /\ Overlapped \subseteq Elems(changes)
           /\ last.batch[1] \notin AddedByMerge
           /\ \A c \in AddedByMerge :
                 /\ PieceOf(c, last.batch[1])
                 /\ \A ex \in Overlapped : ~StrictOverlap(c, ex)

\* C12: merging a batch without strict overlaps into a store without strict
\* overlaps gives a store without strict overlaps
C12_MergeKeepsOverlapFree ==
    (last.op = "merge" /\ NoStrictOverlapIn(last.prev) /\ NoStrictOverlapIn(last.batch))
        => NoStrictOverlapIn(changes)

\* C13: the output of the merge is sorted by start, and by end among the
\* intervals of equal start
C13_SortedByStartThenEnd ==
    last.op = "merge" =>
        \A i, j \in 1..Len(changes) :
            i < j => \/ isBefore(changes[i].start, changes[j].start)
                     \/ /\ isEqual(changes[i].start, changes[j].start)
                        /\ isBeforeOrEqual(changes[i].end, changes[j].end)

\* C14: the output of the merge holds no interval twice, and every interval
\* the merge loop produced is still in it: one is removed only when an
\* interval equal to it on every field remains
C14_FullFieldDedup ==
    last.op = "merge" =>
        /\ \A i, j \in 1..Len(changes) : i # j => changes[i] # changes[j]
        /\ Elems(MergeLoop(last.prev, last.batch)) \subseteq Elems(changes)

\* the UserEdit intervals handed to the last coalescing, sorted by position
SortedUserEdits == UserEditRanges(last.prev)

\* the UserEdit intervals the last coalescing returned
CoalescedUserEdits == SelectSeq(last.batch, LAMBDA r : r.type = UserEdit)

AbsDiff(a, b) == IF a >= b THEN a - b ELSE b - a

\* the k-th and the next sorted UserEdit interval touch and are less than
\* 60 s apart
Linked(k) ==
    /\ isEqual(SortedUserEdits[k].end, SortedUserEdits[k + 1].start)
    /\ AbsDiff(SortedUserEdits[k + 1].ts, SortedUserEdits[k].ts) < 60000

\* the maximal runs of linked consecutive intervals: <<first, last>>
Runs ==
    {r \in (1..Len(SortedUserEdits)) \X (1..Len(SortedUserEdits)) :
        /\ r[1] <= r[2]
        /\ \A k \in r[1]..(r[2] - 1) : Linked(k)
        /\ r[1] = 1 \/ ~Linked(r[1] - 1)
        /\ r[2] = Len(SortedUserEdits) \/ ~Linked(r[2])}

\* the interval a run is replaced by
RunInterval(r) ==
    IF r[1] = r[2] THEN SortedUserEdits[r[1]]
    ELSE [start |-> SortedUserEdits[r[1]].start,
          end |-> SortedUserEdits[r[2]].end,
          type |-> UserEdit,
          ts |-> CHOOSE t \in {SortedUserEdits[k].ts : k \in r[1]..r[2]} :
                    \A k \in r[1]..r[2] : t <= SortedUserEdits[k].ts,
          author |-> SortedUserEdits[r[1]].author,
          options |-> SortedUserEdits[r[1]].options]

\* C15: consecutive sorted UserEdit intervals are grouped exactly when they
\* touch and are less than 60 s apart; each group of several is replaced by
\* one UserEdit from the start of its first to the end of its last interval,
\* with the least creation_ts of the group and the author and options of the
\* first; the other intervals stay as they are
C15_CoalescingRule ==
    last.op = "coalesce" =>
        /\ Len(CoalescedUserEdits) = Cardinality(Runs)
        /\ Elems(CoalescedUserEdits) = {RunInterval(r) : r \in Runs}
        /\ SelectSeq(last.batch, LAMBDA r : r.type # UserEdit)
              = SelectSeq(last.prev, LAMBDA r : r.type # UserEdit)

\* two intervals were coalesced into one, stamped with the time of the second,
\* the earlier one, while a third UserEdit interval stayed alone
C15_Witness ==
    /\ last.op = "coalesce"
    /\ \E r \in Runs :
          /\ r[2] = r[1] + 1
          /\ RunInterval(r).ts < SortedUserEdits[r[1]].ts
          /\ RunInterval(r) \in Elems(last.batch)
    /\ Cardinality(Runs) = 2

\* C16: no interval created 60 s or more after the earliest interval of a
\* group is merged into that group
C16_GroupWithinSixtySeconds ==
    last.op = "coalesce" =>
        \A r \in Runs :
            (r[1] < r[2] /\ RunInterval(r) \in Elems(last.batch))
                => \A k \in r[1]..r[2] :
                      SortedUserEdits[k].ts - RunInterval(r).ts < 60000

\* C17: the intervals replaced by a single interval all have the same author
C17_SameAuthorOnly ==
    last.op = "coalesce" =>
        \A r \in Runs :
            (r[1] < r[2] /\ RunInterval(r) \in Elems(last.batch))
                => \A k \in r[1]..r[2] :
                      SortedUserEdits[k].author = SortedUserEdits[r[1]].author

\* C18: coalescing the result of a coalescing changes nothing
C18_CoalesceIdempotent ==
    last.op = "coalesce" => mergeUserEdits(last.batch) = last.batch

\* a record that parses, has version 1 and holds an array of changes
WellFormed(record) == record.parses /\ record.version = 1 /\ record.shaped

\* C19 as stated: when onSave runs right after the load of a persisted
\* record, the payload it serializes reads back as the changes of that record
C19_LoadSaveRoundTrip ==
    [][(last.op = "activate" /\ last'.op = "save" /\ Len(last.batch) = 1)
          => Deserialized(last'.batch) = last.batch[1].changes]_vars

\* C19, amended: when onSave runs right after the load of a persisted record
\* written before the load, the payload it serializes holds no change: none
\* of the loaded intervals is written again
C19_LoadedNotSavedAgain ==
    [][(last.op = "activate" /\ last'.op = "save") => last'.batch = <<>>]_vars

\* a save ran right after the load of a record and wrote an empty payload
\* for a store that holds the loaded intervals
C19_Witness ==
    /\ last.op = "save"
    /\ nEvents = 2
    /\ last.prev # <<>>
    /\ last.prev = changes
    /\ \A c \in Elems(changes) : c.author = "author" /\ c.ts <= loadTimestamp
    /\ last.batch = <<>>
    /\ savedLog = [written |-> TRUE, changes |-> <<>>]

\* the store a fresh session loads from the record file of the last save
Reloaded == LoadLoop(<<>>, <<Deserialized(savedLog.changes)>>)

\* C20: an interval emitted in the session, other than a UserEdit, which
\* coalescing may widen, comes back from the record onSave wrote with the same
\* range, kind, creation_ts and options when a fresh session loads it
C20_SaveLoadRoundTrip ==
    last.op = "save" =>
        \A c \in Elems(changes) :
            (c.ts > loadTimestamp /\ c.type # UserEdit)
                => \E r \in Elems(Reloaded) :
                      /\ isEqual(r.start, c.start) /\ isEqual(r.end, c.end)
                      /\ r.type = c.type
                      /\ r.ts = c.ts
                      /\ r.options = c.options

\* the serialized change p is the interval c as it was written
WrittenFrom(p, c) ==
    /\ p.start = c.start /\ p.end = c.end
    /\ p.type = c.type
    /\ p.creationTimestamp = c.ts

C22_SaveKeepsLiveState ==
    [][last'.op \in SaveOutcomes
          => /\ changes' = changes
             /\ pasteRanges' = pasteRanges
             /\ loadTimestamp' = loadTimestamp
             /\ hasState' = hasState
             /\ savedLog'.written # savedLog.written
                   => last'.op = "save" /\ ~savedLog.written]_vars

\* a save failed in a session that had written no record yet, with a store
\* and a payload that are not empty
C22_Witness ==
    /\ last.op = "saveFailed"
    /\ ~savedLog.written
    /\ changes # <<>>
    /\ last.batch # <<>>

\* C23: once the activation of a document with a persisted log is over, the
\* store holds, for every interval of the log, an interval with its
\* provenance, whatever was delivered for the document before
C23_LogLoadedAtActivation ==
    last.op \in {"activate", "activateLoaded"} =>
        \A k \in 1..Len(last.batch) : \A c \in Elems(last.batch[k].changes) :
            WellFormed(last.batch[k]) => \E r \in Elems(changes) : SameProvenance(r, c)

\* C24: mutual exclusion.  Every access of the FileState table, of a
\* FileState or of a hint singleton is made by an entry point that holds
\* editLock at that moment
C24_AccessUnderLock ==
    calls.access.by # NoCall => calls.access.holder = calls.access.by

\* the events whose order the Interval Store observes
IsStoreEvent(c) == c.entry \in {"edit", "paste"}

\* C25: arrival order is the order of effect.  Of two edit batches or paste
\* notifications, on one document or on two, the one that arrived first has
\* its effect on the state completed first
C25_ArrivalOrderIsEffectOrder ==
    \A i, j \in DOMAIN calls.effects :
        (i < j /\ IsStoreEvent(calls.effects[i]) /\ IsStoreEvent(calls.effects[j]))
            => calls.effects[i].id < calls.effects[j].id

\* an edit batch on one document and a paste notification on another, both
\* arrived while an earlier call held the lock, have taken effect in turn
C25_Witness ==
    /\ Len(calls.effects) = 3
    /\ calls.effects[2].entry = "edit"
    /\ calls.effects[3].entry = "paste"
    /\ calls.effects[2].file # calls.effects[3].file
    /\ calls.effects[1].entry = "postInsertEdit"
    /\ calls.arrived = calls.effects

\* C26: a createFile command gives the store an AIGenerated interval from
\* 0:0 to the end of the inserted text, for every non-empty insertText and
\* every timestamp of the payload (stated for a document that holds the text,
\* a store that was empty and a state without paste hints)
C26_CreateFileAddsAI ==
    (/\ last.op = "createFile"
     /\ last.prev = <<>>
     /\ pasteRanges = <<>>
     /\ doc[1] >= Len(last.batch[1].text)) =>
        \E k \in 1..Len(changes) :
            /\ changes[k].type = AIGenerated
            /\ isEqual(changes[k].start, Pos(0, 0))
            /\ isEqual(changes[k].end, Pos(0, Len(last.batch[1].text)))

\* no paste hint younger than 200 ms sits at the start of a pending change
NoFreshHintAtPending ==
    \A c \in Elems(aiPending.changes) : ~FreshPasteHint(pasteRanges, c, now)

\* what C27 asks of a postInsertEdit step that finds a pending batch: the
\* transformer runs on exactly that batch with reason AIGenerated, the store
\* gains an AIGenerated interval for every derived edit, and the hint and the
\* pending batch are reset
PendingConsumed ==
    /\ last'.applied
    /\ last'.batch = aiPending.changes
    /\ last'.reason = AIGenerated
    /\ Len(last'.emitted) = Len(aiPending.changes)
    /\ \A e \in Elems(last'.emitted) :
          /\ Len(e.new) = 1
          /\ e.new[1].type = AIGenerated
          /\ e.new[1] \in Elems(changes')
    /\ aiCommand' = InitialAI
    /\ aiPending' = NoPending

\* C27: a postInsertEdit command that finds a pending AI-edit batch consumes
\* it: AIGenerated intervals for the derived edits, hint and pending batch
\* reset; a postInsertEdit that finds no pending batch leaves the store
\* alone, so a batch is consumed at most once
C27_PendingConsumedOnce ==
    [][last'.op = "postInsertEdit" =>
          IF aiPending.set /\ hasState
          THEN PendingConsumed
          ELSE changes' = changes /\ ~last'.applied]_vars

\* C27 amended: the same, when no paste hint younger than 200 ms sits at the
\* start of a pending change (such a hint turns the reason into Paste)
C27_PendingConsumedUnlessPasted ==
    [][last'.op = "postInsertEdit" =>
          IF aiPending.set /\ hasState
          THEN NoFreshHintAtPending => PendingConsumed
          ELSE changes' = changes /\ ~last'.applied]_vars

\* a postInsertEdit has consumed a pending batch derived under an insertEdit
\* hint: the store holds the AIGenerated interval, hint and batch are reset
C27_Witness ==
    /\ last.op = "postInsertEdit"
    /\ last.applied
    /\ Len(last.emitted) = 1
    /\ last.emitted[1].ai.type = "onBeforeInsertEditTool"
    /\ last.emitted[1].new[1].type = AIGenerated
    /\ last.emitted[1].new[1] \in Elems(changes)
    /\ aiPending = NoPending
    /\ aiCommand = InitialAI

\* C28: every change of a batch is folded into every interval the store
\* holds when the change is reached, whatever the classifier did with it:
\* the intervals after the change are the intervals before it, shifted,
\* shrunk or split under the change
C28_EveryEditFolded ==
    last.applied =>
        \A e \in Emitted :
            e.after = FoldFrom(e.before, <<>>, 1, e.change, e.isAI, doc).upd

\* the hint is older than 5 minutes, or older than 2000 ms and not an
\* inlineCompletion
StaleHint(ai) ==
    \A t \in ai.ts :
        \/ t < now - InlineAIWindow
        \/ t < now - AIWindow /\ ai.type # "inlineCompletion"

\* C29: the AI hint acts only within its time window.  With a stale hint, of
\* whatever _type, an edit batch of one change with no reason leaves the very
\* store it would leave with no AI hint at all (stated without paste hints)
C29_StaleHintIgnored ==
    (/\ last.op = "edit" /\ last.applied /\ last.reason = NoReason
     /\ pasteRanges = <<>>
     /\ Len(last.batch) = 1
     /\ \A e \in Emitted : e.ai.ts # {} /\ StaleHint(e.ai)) =>
        changes = getUpdatedRanges(last.prev, <<>>, last.batch, NoReason, doc, InitialAI,
                                   NoPending, NoClipboard, NoHelper, now).ranges

\* C30: the boundary of the shift.  A change whose range ends strictly after
\* p leaves p unchanged; a change whose range ends exactly at p counts as
\* before p: an insertion exactly at p moves p to the end of the inserted
\* text, a deletion ending at p moves p to the start of the deleted range
C30_ShiftBoundary ==
    last.op = "shift" =>
        /\ isBefore(last.prev[1], last.batch[1].range.end)
              => last.emitted[1] = last.prev[1]
        /\ (/\ isEqual(last.batch[1].range.end, last.prev[1])
            /\ isEqual(last.batch[1].range.start, last.batch[1].range.end)
            /\ last.batch[1].text # <<>>)
              => last.emitted[1] =
                    IF CountNL(last.batch[1].text) = 0
                    THEN Right(last.prev[1], Len(last.batch[1].text))
                    ELSE Pos(last.prev[1].line + CountNL(last.batch[1].text),
                             LenAfterLastNL(last.batch[1].text))
        /\ (/\ isEqual(last.batch[1].range.end, last.prev[1])
            /\ isBefore(last.batch[1].range.start, last.batch[1].range.end)
            /\ last.batch[1].text = <<>>)
              => last.emitted[1] = last.batch[1].range.start

\* a one-character insertion exactly at p = 1:2 has moved p to 1:3
C30_Witness ==
    /\ last.op = "shift"
    /\ last.prev = <<Pos(1, 2)>>
    /\ last.batch = << [range |-> Range(Pos(1, 2), Pos(1, 2)), text |-> <<"a">>] >>
    /\ last.emitted = <<Pos(1, 3)>>

\* the documents a position and a change of SpecShift may lie in
ShiftDocs == UNION {[1..n -> 0..MaxCols] : n \in 1..(ShiftLines + 1)}

\* where the character at offset off of d is after the change: the deleted
\* characters before it are gone, the inserted ones are before it
MovedOffset(d, off, change) ==
    off - (offsetAt(d, change.range.end) - offsetAt(d, change.range.start))
        + Len(change.text)

\* C31: the shift is correct against the document.  For every document that
\* holds p and the range of e, with e.range.end <= p, shift(p, e) is the
\* position the character at p occupies once e is applied (deletions,
\* insertions and replacements, on one line or several)
C31_ShiftTracksCharacter ==
    last.op = "shift" =>
        \A d \in ShiftDocs :
            (/\ ValidPos(d, last.prev[1])
             /\ ValidPos(d, last.batch[1].range.start)
             /\ ValidPos(d, last.batch[1].range.end)
             /\ isBeforeOrEqual(last.batch[1].range.end, last.prev[1]))
                => last.emitted[1] =
                      positionAt(ApplyChange(d, last.batch[1]),
                                 MovedOffset(d, offsetAt(d, last.prev[1]), last.batch[1]))

\* a replacement over a line break before p = 1:2 has moved p to line 0
C31_Witness ==
    /\ last.op = "shift"
    /\ last.prev = <<Pos(1, 2)>>
    /\ last.batch = << [range |-> Range(Pos(0, 1), Pos(1, 1)), text |-> <<"a">>] >>
    /\ last.emitted = <<Pos(0, 3)>>

\* C32: for every position and every two well-formed changes,
\* shift(shift(p, e1), e2) has a line and a column that are not negative
C32_ShiftNeverNegative ==
    last.op = "shiftAgain" =>
        /\ last.emitted[2].line >= 0
        /\ last.emitted[2].character >= 0

\* two deletions before p = 1:2, the second over the line break, have moved
\* p to 0:0
C32_Witness ==
    /\ last.op = "shiftAgain"
    /\ last.prev = <<Pos(1, 2)>>
    /\ last.batch = << [range |-> Range(Pos(1, 0), Pos(1, 2)), text |-> <<>>],
                       [range |-> Range(Pos(0, 0), Pos(1, 0)), text |-> <<>>] >>
    /\ last.emitted = <<Pos(1, 0), Pos(0, 0)>>

\* C33: excluded files are never tracked.  For a file whose name, or one of
\* whose directories, begins with a dot, no entry point creates a FileState
\* or changes one
C33_ExcludedNeverTracked ==
    (StartsWithDot(path[Len(path)]) \/ \E k \in 1..(Len(path) - 1) : StartsWithDot(path[k]))
        => ~hasState /\ changes = <<>>

\* the changes of the well-formed records, in the order of the records
WellFormedLogs(records) ==
    [k \in 1..Len(SelectSeq(records, WellFormed)) |->
        SelectSeq(records, WellFormed)[k].changes]

\* C34: malformed records are skipped, not fatal.  Under every storage
\* layout the store after a load is the merge, in order, of the records that
\* parse, have version 1 and the right shape
C34_MalformedSkipped ==
    last.op = "activate" =>
        changes = LoadLoop(<<>>, WellFormedLogs(last.batch))

(***************************************************************************)
(* The fold on its own: one existing interval of a document and one        *)
(* content change, folded by the loop body of getUpdatedRanges.            *)
(***************************************************************************)
FoldDocs == UNION {[1..n -> 0..MaxCols] : n \in 1..(ShiftLines + 1)}

\* a document, one interval of it and one change to it; nothing is folded yet
FoldInit ==
    /\ doc \in FoldDocs
    /\ hasState = TRUE
    /\ changes = <<>>
    /\ pasteRanges = <<>>
    /\ loadTimestamp = 0
    /\ aiCommand = InitialAI
    /\ aiPending = NoPending
    /\ clipboard = NoClipboard
    /\ now = ClipboardWindow
    /\ savedLog = NoLog
    /\ nEvents = 0
    /\ \E r \in Ranges(doc), c \in [range : Ranges(doc), text : Texts] :
          /\ ~(isEqual(c.range.start, c.range.end) /\ c.text = <<>>)
          /\ last = [NoEvent EXCEPT
                        !.op = "interval", !.batch = <<c>>,
                        !.prev = <<ExtendedRange(r.start, r.end, UndoRedo, LogOld,
                                                 "", NoOptions)>>]
    /\ editLock = Unlocked
    /\ calls = NoCalls
    /\ path = TrackedPath

\* the host applies the change, then the loop over toUpdateRanges folds it
\* into the interval; isAI says whether the emission was AIGenerated
Fold ==
    /\ nEvents = 0
    /\ doc' = ApplyChange(doc, last.batch[1])
    /\ \E isAI \in BOOLEAN :
          last' = [op |-> "fold", batch |-> last.batch, reason |-> NoReason,
                   applied |-> TRUE, prev |-> last.prev, isAI |-> isAI, before |-> doc,
                   emitted |-> <<FoldFrom(last.prev, <<>>, 1, last.batch[1], isAI, doc')>>]
    /\ nEvents' = nEvents + 1
    /\ UNCHANGED <<savedLog, editLock, calls, path, hasState, changes, pasteRanges,
                   loadTimestamp, aiCommand, aiPending, clipboard, now>>

FoldNext == Fold

SpecFold == FoldInit /\ [][FoldNext]_vars

\* the intervals the fold left in toUpdateRanges
FoldKept == NotNull(last.emitted[1].upd)

\* the characters of document d that interval r covers, as offsets
Cells(d, r) == offsetAt(d, r.start)..(offsetAt(d, r.end) - 1)

\* the characters of the folded interval that the change did not delete
Surviving ==
    {o \in Cells(last.before, last.prev[1]) :
        \/ o < offsetAt(last.before, last.batch[1].range.start)
        \/ o >= offsetAt(last.before, last.batch[1].range.end)}

\* where the surviving characters are in the post-edit document
SurvivingImage ==
    {IF o < offsetAt(last.before, last.batch[1].range.start) THEN o
     ELSE MovedOffset(last.before, o, last.batch[1]) : o \in Surviving}

\* the interval lies within the range of the change, touch-only cases (an
\* empty interval at an end of the range) aside
WithinDeleted ==
    /\ isBeforeOrEqual(last.batch[1].range.start, last.prev[1].start)
    /\ isBeforeOrEqual(last.prev[1].end, last.batch[1].range.end)
    /\ \/ ~IsEmptyRange(last.prev[1])
       \/ /\ isBefore(last.batch[1].range.start, last.prev[1].start)
          /\ isBefore(last.prev[1].end, last.batch[1].range.end)

\* C35: the generic deletion fold.  For a change with a non-empty range D
\* whose emission was not AIGenerated, an interval within D is removed, and
\* otherwise what is kept of the interval (one interval, or two halves around
\* replacement text) lies in the post-edit document and covers exactly the
\* image of the characters of the interval that D did not delete, each once
C35_GenericDeletionFold ==
    (/\ last.op = "fold"
     /\ ~last.isAI
     /\ isBefore(last.batch[1].range.start, last.batch[1].range.end)) =>
        /\ WithinDeleted => FoldKept = <<>>
        /\ \A k \in 1..Len(FoldKept) :
              /\ ValidPos(doc, FoldKept[k].start)
              /\ ValidPos(doc, FoldKept[k].end)
              /\ isBeforeOrEqual(FoldKept[k].start, FoldKept[k].end)
        /\ UNION {Cells(doc, FoldKept[k]) : k \in 1..Len(FoldKept)} = SurvivingImage
        /\ \A j, k \in 1..Len(FoldKept) :
              j # k => Cells(doc, FoldKept[j]) \cap Cells(doc, FoldKept[k]) = {}
        /\ (last.batch[1].text = <<>> /\ Surviving # {}) => Len(FoldKept) = 1

\* a deletion of 0:1..0:2 inside the interval [0:0,0:3] has left [0:0,0:2]
C35_Witness ==
    /\ last.op = "fold"
    /\ ~last.isAI
    /\ last.batch = << [range |-> Range(Pos(0, 1), Pos(0, 2)), text |-> <<>>] >>
    /\ last.prev[1].start = Pos(0, 0)
    /\ last.prev[1].end = Pos(0, 3)
    /\ Len(FoldKept) = 1
    /\ FoldKept[1].start = Pos(0, 0)
    /\ FoldKept[1].end = Pos(0, 2)

\* the change of the fold is a pure insertion
PureInsertion ==
    /\ isEqual(last.batch[1].range.start, last.batch[1].range.end)
    /\ last.batch[1].text # <<>>

\* C36: inserted text never joins a neighbouring interval.  Whatever the
\* kind of the emission, a pure insertion exactly at the end of a non-empty
\* interval leaves the start and the end of the interval as they were, and a
\* pure insertion exactly at the start of an interval moves both ends right
\* by the inserted text; the interval covers the characters it covered
\* before, and none of the inserted ones
C36_InsertionNeverJoins ==
    (last.op = "fold" /\ PureInsertion) =>
        /\ (/\ ~IsEmptyRange(last.prev[1])
            /\ isEqual(last.batch[1].range.start, last.prev[1].end))
              => /\ FoldKept = last.prev
                 /\ Cells(doc, FoldKept[1]) = Cells(last.before, last.prev[1])
        /\ isEqual(last.batch[1].range.start, last.prev[1].start)
              => /\ Len(FoldKept) = 1
                 /\ FoldKept[1].start =
                       positionAt(doc, offsetAt(last.before, last.prev[1].start)
                                           + Len(last.batch[1].text))
                 /\ FoldKept[1].end =
                       positionAt(doc, offsetAt(last.before, last.prev[1].end)
                                           + Len(last.batch[1].text))
                 /\ Cardinality(Cells(doc, FoldKept[1]))
                       = Cardinality(Cells(last.before, last.prev[1]))

\* "a" inserted at 0:2, the end of [0:1,0:2]: the interval is as it was
C36_Witness ==
    /\ last.op = "fold"
    /\ last.batch = << [range |-> Range(Pos(0, 2), Pos(0, 2)), text |-> <<"a">>] >>
    /\ last.prev[1].start = Pos(0, 1)
    /\ last.prev[1].end = Pos(0, 2)
    /\ Len(FoldKept) = 1
    /\ FoldKept[1].start = Pos(0, 1)
    /\ FoldKept[1].end = Pos(0, 2)

\* C37: touching empties are removed over the whole output.  In the store
\* returned by apply, the folded intervals together with the emitted ones, no
\* empty interval shares an endpoint with another interval
C37_NoTouchingEmpties ==
    last.applied =>
        \A i, j \in 1..Len(changes) :
            (i # j /\ IsEmptyRange(changes[i])) =>
                /\ ~isEqual(changes[i].end, changes[j].start)
                /\ ~isEqual(changes[i].start, changes[j].end)

\* C38: the AI span wins.  After an apply of one change classified
\* AIGenerated that replaces a non-empty range, what the store keeps of an
\* interval the range reached does not strictly overlap the emitted
\* AIGenerated interval and lies within the post-edit document
C38_AISpanWins ==
    (last.applied /\ Len(last.batch) = 1) =>
        \A e \in Emitted :
            (e.isAI /\ isBefore(e.change.range.start, e.change.range.end)) =>
                \A iv \in Elems(e.before) \ {Null} :
                    Touches(e.change, iv) =>
                        \A r \in Elems(changes) \ Elems(e.new) :
                            SameProvenance(r, iv) =>
                                /\ \A n \in Elems(e.new) : ~StrictOverlap(r, n)
                                /\ ValidPos(doc, r.start)
                                /\ ValidPos(doc, r.end)

\* C39: the result of apply does not depend on the order in which the host
\* lists the edits of a batch.  For a batch of two edits over disjoint
\* ranges, delivered with no paste hint, apply returns the same intervals for
\* the batch listed from the end of the document on and for the batch listed
\* from its start on
C39_OrderIndependent ==
    [][(/\ last'.op = "edit"
        /\ last'.applied
        /\ Len(last'.batch) = 2
        /\ isBefore(last'.batch[2].range.end, last'.batch[1].range.start)
        /\ pasteRanges = <<>>)
          => getUpdatedRanges(changes, pasteRanges,
                              <<last'.batch[1], last'.batch[2]>>, last'.reason, doc',
                              aiCommand, aiPending, clipboard, NoHelper, now).ranges
             = getUpdatedRanges(changes, pasteRanges,
                                <<last'.batch[2], last'.batch[1]>>, last'.reason, doc',
                                aiCommand, aiPending, clipboard, NoHelper, now).ranges]_vars

(***************************************************************************)
(* A document whose log was written shortly before it was loaded: the      *)
(* state after the loader ran, then edits, saves and the clock.            *)
(***************************************************************************)
\* logs of one UserEdit interval over the first line, written ReloadAge ms
\* before the activation or long before it
ReloadLogs(d, t) ==
    { << << ExtendedRange(Pos(0, 0), Pos(0, d[1]), UserEdit, stamp, "author", NoOptions) >> >> :
        stamp \in {t - ReloadAge, LogOld} }

ReloadInit ==
    /\ doc \in {d \in Docs : d[1] > 0}
    /\ hasState = TRUE
    /\ changes \in {LoadLoop(<<>>, logs) : logs \in ReloadLogs(doc, ClipboardWindow)}
    /\ pasteRanges = <<>>
    /\ loadTimestamp = ClipboardWindow - 1
    /\ aiCommand = InitialAI
    /\ aiPending = NoPending
    /\ clipboard = NoClipboard
    /\ now = ClipboardWindow
    /\ savedLog = NoLog
    /\ nEvents = MaxEvents - 2
    /\ last = NoEvent
    /\ editLock = Unlocked
    /\ calls = NoCalls
    /\ path = TrackedPath

ReloadNext ==
    \/ OnEditBatch
    \/ OnSave
    \/ Tick

SpecReload == ReloadInit /\ [][ReloadNext]_vars

\* the serialized change p covers the interval c
Covers(p, c) == isBeforeOrEqual(p.start, c.start) /\ isBeforeOrEqual(c.end, p.end)

\* C40: no new annotation is lost at save.  Every interval of the store
\* created after loadTimestamp is covered by a change of the payload that
\* onSave serialises, also when it touches a UserEdit interval loaded from
\* the log that is less than 60 s older
C40_NewAnnotationSaved ==
    last.op = "save" =>
        \A c \in Elems(changes) :
            c.ts > loadTimestamp => \E p \in Elems(last.batch) : Covers(p, c)

====
